---- MODULE Spec2Model ----
(***************************************************************************)
(* Model of the email summarizer's content pipeline:                       *)
(*   EmailPreprocessor  (src/email_summarizer/preprocessor/cleaner.py)     *)
(*   SummarizerEngine, RemoteSummarizer, LocalSummarizer                   *)
(*                      (src/email_summarizer/summarizer/engine.py)        *)
(*   EmailOrchestrator  (src/email_summarizer/orchestrator/processor.py)   *)
(*                                                                         *)
(* A text (a Python str) is a sequence of symbols.  A symbol is a string:  *)
(* either one character ("a", " ", ">", ".", "\n") or one lexeme that the  *)
(* code's regular expressions match as a unit ("Regards,", a date, a       *)
(* reply header).  Width gives the number of characters of a symbol.       *)
(* A calendar date is a day number.                                        *)
(***************************************************************************)
EXTENDS Integers, Sequences, FiniteSets, TLC

\* ------------------------------------------------------------------------
\* Bounds of the model
\* ------------------------------------------------------------------------

\* Longest batch the fetch collaborator returns.
MaxBatch == 3

\* Most lines of a text handed to a function of the cleaner on its own.
MaxLines == 3

\* Most characters by which a body handed to _truncate_body exceeds the budget.
MaxOver == 2

\* Most lines of a text handed to extract_main_content on its own.
MaxBlock == 6

\* Most dates written in a text handed to _extract_deadlines.
MaxDates == 4

\* Most calls of save_summary made on one StorageManager.
MaxSaves == 2

\* ------------------------------------------------------------------------
\* Texts
\* ------------------------------------------------------------------------

NL == "\n"
SP == " "

\* date.today(): the day number of the current date.
Today == 1

\* Lexemes the date patterns of _extract_deadlines match.
IsoDates == {"2026-10-31", "2026-11-01", "2026-11-02", "2026-11-03", "2026-13-45"}
UsDates == {"11/02/2026", "11/05/2026"}
LongDates == {"Nov 4, 2026"}
DateLexemes == IsoDates \cup UsDates \cup LongDates

\* dateutil's parser.parse(match).date(): the day number, or raises (ok = FALSE).
ParseDate(s) ==
    CASE s = "2026-10-31" -> [ok |-> TRUE, day |-> 0]
      [] s = "2026-11-01" -> [ok |-> TRUE, day |-> 1]
      [] s = "2026-11-02" -> [ok |-> TRUE, day |-> 2]
      [] s = "2026-11-03" -> [ok |-> TRUE, day |-> 3]
      [] s = "11/02/2026" -> [ok |-> TRUE, day |-> 2]
      [] s = "11/05/2026" -> [ok |-> TRUE, day |-> 5]
      [] s = "Nov 4, 2026" -> [ok |-> TRUE, day |-> 4]
      [] OTHER -> [ok |-> FALSE, day |-> 0]

\* len() of one symbol.
Width(s) ==
    CASE s \in IsoDates \cup UsDates -> 10
      [] s \in LongDates -> 11
      [] s = "--" -> 2
      [] s = "Regards," -> 8
      [] s = "Sent from my" -> 12
      [] s = "On Mon wrote:" -> 13
      [] s = "555-123-4567" -> 12
      [] s = "office" -> 6
      [] s = "please" -> 6
      [] s = "[Empty email body]" -> 18
      [] OTHER -> 1

RECURSIVE TextLen(_)
\* len(text)
TextLen(t) == IF t = <<>> THEN 0 ELSE Width(Head(t)) + TextLen(Tail(t))

IsSpace(s) == s \in {SP, NL}

RECURSIVE LStrip(_)
LStrip(t) == IF t # <<>> /\ IsSpace(Head(t)) THEN LStrip(Tail(t)) ELSE t

RECURSIVE RStrip(_)
RStrip(t) ==
    IF t # <<>> /\ IsSpace(t[Len(t)]) THEN RStrip(SubSeq(t, 1, Len(t) - 1)) ELSE t

\* str.strip()
Strip(t) == RStrip(LStrip(t))

\* str.startswith(prefix)
StartsWith(t, p) == Len(t) >= Len(p) /\ SubSeq(t, 1, Len(p)) = p

Contains(t, s) == \E k \in 1..Len(t) : t[k] = s

RECURSIVE Split(_, _)
\* str.split(sep) for a one-symbol separator
Split(t, sep) ==
    IF ~Contains(t, sep) THEN <<t>>
    ELSE LET k == CHOOSE i \in 1..Len(t) :
                      t[i] = sep /\ \A j \in 1..(i - 1) : t[j] # sep
         IN  <<SubSeq(t, 1, k - 1)>> \o Split(SubSeq(t, k + 1, Len(t)), sep)

RECURSIVE Join(_, _)
\* sep.join(parts)
Join(parts, sep) ==
    IF parts = <<>> THEN <<>>
    ELSE IF Len(parts) = 1 THEN parts[1]
    ELSE parts[1] \o <<sep>> \o Join(Tail(parts), sep)

\* ------------------------------------------------------------------------
\* EmailPreprocessor
\* ------------------------------------------------------------------------

\* An optional str: None, or a text.
None == [some |-> FALSE, v |-> <<>>]
Some(t) == [some |-> TRUE, v |-> t]
\* Python truthiness of an optional str
Truthy(o) == o.some /\ o.v # <<>>

\* A line matches one of QUOTE_PATTERNS (all anchored at the line start).
IsQuoteHeader(line) == line # <<>> /\ line[1] = "On Mon wrote:"

\* A line matches one of SIGNATURE_PATTERNS.
IsSignatureLine(line) ==
    \/ RStrip(line) # <<>> /\ RStrip(line)[Len(RStrip(line))] = "--"
    \/ Contains(line, "Sent from my")
    \/ RStrip(line) = <<"Regards,">>

\* r"\b\d{3}[-.]?\d{3}[-.]?\d{4}\b"
HasPhone(line) == Contains(line, "555-123-4567")

\* r"@|www\.|http|phone|mobile|office"
HasContactIndicator(line) == Contains(line, "@") \/ Contains(line, "office")

RECURSIVE HtmlTextNodes(_)
\* The text nodes of the parsed document, script/style/head/meta removed.
\* "<p>" stands for any markup between two text nodes, "<script>" for a
\* whole script, style, head or meta element.
HtmlTextNodes(html) ==
    IF html = <<>> THEN <<>>
    ELSE LET isTag(s) == s \in {"<p>", "<script>"}
             n == IF \E k \in 1..Len(html) : isTag(html[k])
                  THEN (CHOOSE k \in 1..Len(html) :
                            isTag(html[k]) /\ \A j \in 1..(k - 1) : ~isTag(html[j])) - 1
                  ELSE Len(html)
             rest == IF n = Len(html) THEN <<>> ELSE SubSeq(html, n + 2, Len(html))
         IN  (IF n = 0 THEN <<>> ELSE <<SubSeq(html, 1, n)>>) \o HtmlTextNodes(rest)

html_to_text(html) == Join(HtmlTextNodes(html), NL)

RECURSIVE QuoteScan(_, _)
\* Mutant of QuoteScan: a line starting with ">" is dropped only while
\* in_quote is set.
QuoteScanDropsOnlyInQuote(lines, in_quote) ==
    IF lines = <<>> THEN <<>>
    ELSE LET line == Head(lines)
             rest == Tail(lines)
         IN  IF IsQuoteHeader(line) THEN QuoteScan(rest, TRUE)
             ELSE IF in_quote /\ StartsWith(Strip(line), <<">">>)
                  THEN QuoteScan(rest, in_quote)
             ELSE IF in_quote /\ Strip(line) # <<>>
                  THEN IF TextLen(Strip(line)) < 5
                          \/ StartsWith(line, <<SP, SP, SP, SP>>)
                       THEN QuoteScan(rest, in_quote)
                       ELSE <<line>> \o QuoteScan(rest, FALSE)
             ELSE IF ~in_quote THEN <<line>> \o QuoteScan(rest, in_quote)
             ELSE QuoteScan(rest, in_quote)

\* Mutant of QuoteScan: inside a quote a short line ends the quote like any
\* other line; only an indented one continues it.
QuoteScanShortEndsQuote(lines, in_quote) ==
    IF lines = <<>> THEN <<>>
    ELSE LET line == Head(lines)
             rest == Tail(lines)
         IN  IF IsQuoteHeader(line) THEN QuoteScan(rest, TRUE)
             ELSE IF StartsWith(Strip(line), <<">">>) THEN QuoteScan(rest, in_quote)
             ELSE IF in_quote /\ Strip(line) # <<>>
                  THEN IF StartsWith(line, <<SP, SP, SP, SP>>)
                       THEN QuoteScan(rest, in_quote)
                       ELSE <<line>> \o QuoteScan(rest, FALSE)
             ELSE IF ~in_quote THEN <<line>> \o QuoteScan(rest, in_quote)
             ELSE QuoteScan(rest, in_quote)

\* The loop of remove_quoted_replies over the remaining lines.
QuoteScan(lines, in_quote) ==
    IF lines = <<>> THEN <<>>
    ELSE LET line == Head(lines)
             rest == Tail(lines)
         IN  IF IsQuoteHeader(line) THEN QuoteScan(rest, TRUE)
             ELSE IF StartsWith(Strip(line), <<">">>) THEN QuoteScan(rest, in_quote)
             ELSE IF in_quote /\ Strip(line) # <<>>
                  THEN IF TextLen(Strip(line)) < 5
                          \/ StartsWith(line, <<SP, SP, SP, SP>>)
                       THEN QuoteScan(rest, in_quote)
                       ELSE <<line>> \o QuoteScan(rest, FALSE)
             ELSE IF ~in_quote THEN <<line>> \o QuoteScan(rest, in_quote)
             ELSE QuoteScan(rest, in_quote)

remove_quoted_replies(text) == Join(QuoteScan(Split(text, NL), FALSE), NL)

\* lines[i : i + 3] holds at least two lines with a contact indicator
\* (i is the 1-based index of the line).
ContactBlock(lines, i) ==
    LET hi == IF i + 2 <= Len(lines) THEN i + 2 ELSE Len(lines)
    IN  Cardinality({k \in i..hi : HasContactIndicator(lines[k])}) >= 2

\* The loop body of remove_signature decides that line i (1-based) starts the
\* signature.  Python's index is i - 1, and i - 1 > len(lines) * 0.6.
SignatureAt(lines, i) ==
    \/ IsSignatureLine(lines[i])
    \/ /\ 5 * (i - 1) > 3 * Len(lines)
       /\ HasPhone(lines[i])
       /\ ContactBlock(lines, i)

\* Mutant of remove_signature: the cut keeps the line that starts the
\* signature (lines[:signature_start + 1]).
RemoveSignatureKeepsDelimiter(text) ==
    LET lines == Split(text, NL)
        hits == {i \in 1..Len(lines) : SignatureAt(lines, i)}
    IN  IF hits = {} THEN text
        ELSE LET signature_start == CHOOSE i \in hits : \A j \in hits : i <= j
             IN  Join(SubSeq(lines, 1, signature_start), NL)

remove_signature(text) ==
    LET lines == Split(text, NL)
        hits == {i \in 1..Len(lines) : SignatureAt(lines, i)}
    IN  IF hits = {} THEN text
        ELSE LET signature_start == CHOOSE i \in hits : \A j \in hits : i <= j
             IN  Join(SubSeq(lines, 1, signature_start - 1), NL)

RECURSIVE CollapseNewlines(_)
\* re.sub(r"\n\s*\n\s*\n+", "\n\n", text): in every maximal run of whitespace
\* holding at least three newlines, the span from its first to its last
\* newline becomes two newlines.
CollapseNewlines(text) ==
    IF text = <<>> THEN <<>>
    ELSE IF ~IsSpace(Head(text)) THEN <<Head(text)>> \o CollapseNewlines(Tail(text))
    ELSE LET n == Len(text) - Len(LStrip(text))
             run == SubSeq(text, 1, n)
             nls == {k \in 1..n : run[k] = NL}
             rest == CollapseNewlines(SubSeq(text, n + 1, Len(text)))
         IN  IF Cardinality(nls) >= 3
             THEN LET first == CHOOSE k \in nls : \A j \in nls : k <= j
                      last == CHOOSE k \in nls : \A j \in nls : k >= j
                  IN  SubSeq(run, 1, first - 1) \o <<NL, NL>>
                          \o SubSeq(run, last + 1, n) \o rest
             ELSE run \o rest

RECURSIVE DropLeadingEmpty(_)
DropLeadingEmpty(lines) ==
    IF lines # <<>> /\ Head(lines) = <<>> THEN DropLeadingEmpty(Tail(lines)) ELSE lines

RECURSIVE DropTrailingEmpty(_)
DropTrailingEmpty(lines) ==
    IF lines # <<>> /\ lines[Len(lines)] = <<>>
    THEN DropTrailingEmpty(SubSeq(lines, 1, Len(lines) - 1))
    ELSE lines

\* Mutant of extract_main_content: the newlines are not collapsed before the
\* lines are trimmed.
ExtractMainContentNoCollapse(text) ==
    LET collapsed == Split(text, NL)
        stripped == [k \in 1..Len(collapsed) |-> Strip(collapsed[k])]
    IN  Strip(Join(DropTrailingEmpty(DropLeadingEmpty(stripped)), NL))

extract_main_content(text) ==
    LET collapsed == Split(CollapseNewlines(text), NL)
        stripped == [k \in 1..Len(collapsed) |-> Strip(collapsed[k])]
    IN  Strip(Join(DropTrailingEmpty(DropLeadingEmpty(stripped)), NL))

Placeholder == <<"[Empty email body]">>

NoCleaned ==
    [message_id |-> "", sender |-> "", subject |-> "", received_at |-> 0,
     cleaned_body |-> <<>>, attachments |-> <<>>,
     original_length |-> 0, cleaned_length |-> 0]

\* Mutant of clean_email: the signature is removed before the quoted replies.
CleanEmailSignatureFirst(raw_email) ==
    LET chosen == IF Truthy(raw_email.body_html) THEN raw_email.body_html
                  ELSE raw_email.body_text
    IN  IF ~chosen.some THEN [raised |-> "TypeError", value |-> NoCleaned]
        ELSE
        LET body0 == IF Truthy(raw_email.body_html)
                     THEN html_to_text(raw_email.body_html.v)
                     ELSE chosen.v
            body == extract_main_content(remove_quoted_replies(remove_signature(body0)))
        IN  [raised |-> "",
             value |->
                [message_id |-> raw_email.message_id,
                 sender |-> raw_email.sender,
                 subject |-> raw_email.subject,
                 received_at |-> raw_email.received_at,
                 cleaned_body |-> IF Strip(body) = <<>> THEN Placeholder ELSE body,
                 attachments |-> [k \in 1..Len(raw_email.attachments) |->
                                    raw_email.attachments[k].filename],
                 original_length |-> TextLen(chosen.v),
                 cleaned_length |-> TextLen(body)]]

\* EmailPreprocessor.clean_email: raised = "" when it returns value.
\* len(None) raises TypeError when neither body is usable and body_text is None.
clean_email(raw_email) ==
    LET chosen == IF Truthy(raw_email.body_html) THEN raw_email.body_html
                  ELSE raw_email.body_text
    IN  IF ~chosen.some THEN [raised |-> "TypeError", value |-> NoCleaned]
        ELSE
        LET body0 == IF Truthy(raw_email.body_html)
                     THEN html_to_text(raw_email.body_html.v)
                     ELSE chosen.v
            body == extract_main_content(remove_signature(remove_quoted_replies(body0)))
        IN  [raised |-> "",
             value |->
                [message_id |-> raw_email.message_id,
                 sender |-> raw_email.sender,
                 subject |-> raw_email.subject,
                 received_at |-> raw_email.received_at,
                 cleaned_body |-> IF Strip(body) = <<>> THEN Placeholder ELSE body,
                 attachments |-> [k \in 1..Len(raw_email.attachments) |->
                                    raw_email.attachments[k].filename],
                 original_length |-> TextLen(chosen.v),
                 cleaned_length |-> TextLen(body)]]

\* ------------------------------------------------------------------------
\* SummarizerEngine
\* ------------------------------------------------------------------------

\* SummarizerEngine.max_tokens (summarizer.max_input_tokens of the
\* configuration).  With 5 the budget is 20 characters and 80% of it is the
\* whole number 16, so that a period can lie exactly there.
max_tokens == 5

RECURSIVE Prefix(_, _)
\* body[:n]: the first n characters.  A lexeme that straddles the cut is
\* dropped whole.
Prefix(t, n) ==
    IF t = <<>> \/ Width(Head(t)) > n THEN <<>>
    ELSE <<Head(t)>> \o Prefix(Tail(t), n - Width(Head(t)))

\* str.rfind('.') as a character index counted from 0, -1 when there is none.
RFindPeriod(t) ==
    LET ks == {k \in 1..Len(t) : t[k] = "."}
    IN  IF ks = {} THEN -1
        ELSE TextLen(SubSeq(t, 1, CHOOSE k \in ks : \A j \in ks : k >= j)) - 1

TruncationMarker == <<NL, NL, "[Email truncated...]">>

\* Mutant of truncate_body: a body of exactly max_chars characters is cut
\* (len(body) < max_chars).
TruncateBodyAtBudget(body) ==
    LET max_chars == max_tokens * 4
        truncated == Prefix(body, max_chars)
        last_period == RFindPeriod(truncated)
    IN  IF TextLen(body) < max_chars THEN body
        ELSE (IF 5 * last_period > 4 * max_chars
              THEN Prefix(truncated, last_period + 1)
              ELSE truncated) \o TruncationMarker

\* Mutant of truncate_body: a period exactly at 80% of the budget is taken as
\* the cut (last_period >= max_chars * 0.8).
TruncateBodyInclusive(body) ==
    LET max_chars == max_tokens * 4
        truncated == Prefix(body, max_chars)
        last_period == RFindPeriod(truncated)
    IN  IF TextLen(body) <= max_chars THEN body
        ELSE (IF 5 * last_period >= 4 * max_chars
              THEN Prefix(truncated, last_period + 1)
              ELSE truncated) \o TruncationMarker

\* SummarizerEngine._truncate_body
\* last_period > max_chars * 0.8 is 5 * last_period > 4 * max_chars.
truncate_body(body) ==
    LET max_chars == max_tokens * 4
        truncated == Prefix(body, max_chars)
        last_period == RFindPeriod(truncated)
    IN  IF TextLen(body) <= max_chars THEN body
        ELSE (IF 5 * last_period > 4 * max_chars
              THEN Prefix(truncated, last_period + 1)
              ELSE truncated) \o TruncationMarker

\* A prompt sent to the backend.  kind "summarize" is PROMPT_TEMPLATE filled
\* in; kind "fix" is the fix_prompt of _retry_with_json_fix, which quotes the
\* previous response.
build_prompt(email) ==
    [kind |-> "summarize",
     subject |-> email.subject,
     sender |-> email.sender,
     received_at |-> email.received_at,
     attachment_list |->
        IF email.attachments # <<>>
        THEN Join([k \in 1..Len(email.attachments) |-> <<email.attachments[k]>>], ", ")
        ELSE <<"None">>,
     cleaned_body |-> truncate_body(email.cleaned_body),
     quoted |-> <<>>]

fix_prompt(previous_response) ==
    [kind |-> "fix", subject |-> "", sender |-> "", received_at |-> 0,
     attachment_list |-> <<>>, cleaned_body |-> <<>>, quoted |-> previous_response]

\* A backend response is a sequence of tokens: "{", "}", "txt" (any other
\* text) and one token per key/value pair of a JSON object, named by its key,
\* with the value in val.  A value is a list (iterable), or it is null, a
\* number or a boolean, which a for loop cannot iterate over.
Tok(t) == [t |-> t, val |-> <<>>, iterable |-> TRUE]
Pair(key, val) == [t |-> key, val |-> val, iterable |-> TRUE]
Scalar(key) == [t |-> key, val |-> <<>>, iterable |-> FALSE]
JsonKeys == {"summary", "actions", "deadlines", "other"}

NoSummary ==
    [message_id |-> "", sender |-> "", subject |-> "", received_at |-> 0,
     summary |-> <<>>, actions |-> <<>>, deadlines |-> <<>>,
     created_at |-> 0, model_used |-> ""]

\* str.find('{') and str.rfind('}') as indexes counted from 0, -1 for none.
FindOpen(r) ==
    LET ks == {k \in 1..Len(r) : r[k].t = "{"}
    IN  IF ks = {} THEN -1 ELSE (CHOOSE k \in ks : \A j \in ks : k <= j) - 1

RFindClose(r) ==
    LET ks == {k \in 1..Len(r) : r[k].t = "}"}
    IN  IF ks = {} THEN -1 ELSE (CHOOSE k \in ks : \A j \in ks : k >= j) - 1

\* json.loads(json_str) succeeds: one object whose members are key/value pairs.
JsonValid(js) ==
    /\ Len(js) >= 2
    /\ js[1].t = "{"
    /\ js[Len(js)].t = "}"
    /\ \A k \in 2..(Len(js) - 1) : js[k].t \in JsonKeys

\* data[key] of the parsed object (the last member with that key wins).
JsonGet(js, key) ==
    LET ks == {k \in 1..Len(js) : js[k].t = key}
    IN  js[CHOOSE k \in ks : \A j \in ks : k >= j].val

JsonHas(js, key) == \E k \in 1..Len(js) : js[k].t = key

\* iter(data[key]) succeeds.
JsonIterable(js, key) ==
    LET ks == {k \in 1..Len(js) : js[k].t = key}
    IN  js[CHOOSE k \in ks : \A j \in ks : k >= j].iterable

RECURSIVE ParseDeadlines(_)
\* The loop over data['deadlines']: date.fromisoformat of each entry, the
\* entries that raise are skipped.
ParseDeadlines(strs) ==
    IF strs = <<>> THEN <<>>
    ELSE (IF Head(strs) \in IsoDates /\ ParseDate(Head(strs)).ok
          THEN <<ParseDate(Head(strs)).day>>
          ELSE <<>>) \o ParseDeadlines(Tail(strs))

\* The try block of _parse_response (lines 109-147): the summary, or the
\* exception raised inside it.
ParseBody(response_text, email, model_name) ==
    LET json_start == FindOpen(response_text)
        json_end == RFindClose(response_text) + 1
        json_str == SubSeq(response_text, json_start + 1, json_end)
    IN  IF json_start = -1 \/ json_end = 0
        THEN [raised |-> "ValueError", value |-> NoSummary]
        ELSE IF ~JsonValid(json_str)
        THEN [raised |-> "JSONDecodeError", value |-> NoSummary]
        ELSE IF ~JsonHas(json_str, "summary")
        THEN [raised |-> "ValueError", value |-> NoSummary]
        ELSE IF JsonHas(json_str, "deadlines") /\ ~JsonIterable(json_str, "deadlines")
        THEN [raised |-> "TypeError", value |-> NoSummary]
        ELSE [raised |-> "",
              value |->
                [message_id |-> email.message_id,
                 sender |-> email.sender,
                 subject |-> email.subject,
                 received_at |-> email.received_at,
                 summary |-> JsonGet(json_str, "summary"),
                 actions |-> IF JsonHas(json_str, "actions")
                             THEN JsonGet(json_str, "actions") ELSE <<>>,
                 deadlines |-> IF JsonHas(json_str, "deadlines")
                               THEN ParseDeadlines(JsonGet(json_str, "deadlines"))
                               ELSE <<>>,
                 created_at |-> Today,
                 model_used |-> model_name]]

\* SummarizerEngine._parse_response: the except clause turns the
\* JSONDecodeError of json.loads into a ValueError.
parse_response(response_text, email, model_name) ==
    LET r == ParseBody(response_text, email, model_name)
    IN  IF r.raised = "JSONDecodeError"
        THEN [raised |-> "ValueError", value |-> NoSummary]
        ELSE r

\* ------------------------------------------------------------------------
\* RemoteSummarizer
\* ------------------------------------------------------------------------

\* RemoteSummarizer._get_model_name
RemoteModelName == "openai/gpt-3.5-turbo"

\* What one call of client.chat.completions.create does: it raises
\* (raises # ""), or returns a response whose content is text.
Returned(text) == [raises |-> "", text |-> text]
Raised(exc) == [raises |-> exc, text |-> <<>>]

\* A call made to the backend.
Call(kind, prompt) == [kind |-> kind, prompt |-> prompt]

\* Mutant of FallbackSummary: the fallback is built without the message_id.
FallbackSummaryNoId(email) ==
    [message_id |-> "",
     sender |-> email.sender,
     subject |-> email.subject,
     received_at |-> email.received_at,
     summary |-> <<"Email from ", email.sender, " regarding: ", email.subject>>,
     actions |-> <<>>,
     deadlines |-> <<>>,
     created_at |-> Today,
     model_used |-> RemoteModelName]

\* The fallback EmailSummary of _retry_with_json_fix (lines 250-260).
FallbackSummary(email) ==
    [message_id |-> email.message_id,
     sender |-> email.sender,
     subject |-> email.subject,
     received_at |-> email.received_at,
     summary |-> <<"Email from ", email.sender, " regarding: ", email.subject>>,
     actions |-> <<>>,
     deadlines |-> <<>>,
     created_at |-> Today,
     model_used |-> RemoteModelName]

\* RemoteSummarizer._retry_with_json_fix: one call to the backend with the
\* fix prompt; any exception of the call or of the parse yields the fallback.
retry_with_json_fix(email, previous_response, outcome) ==
    LET calls == <<Call("repair", fix_prompt(previous_response))>>
        parsed == parse_response(outcome.text, email, RemoteModelName)
    IN  IF outcome.raises # "" \/ parsed.raised # ""
        THEN [raised |-> "", value |-> FallbackSummary(email), calls |-> calls]
        ELSE [raised |-> "", value |-> parsed.value, calls |-> calls]

\* RemoteSummarizer.summarize, given what the first and (if made) the second
\* call to the backend do.  The JSONDecodeError handler uses response_text,
\* which is unbound when the call itself raised.
remote_summarize(email, first, second) ==
    LET calls == <<Call("initial", build_prompt(email))>>
        parsed == parse_response(first.text, email, RemoteModelName)
        raised == IF first.raises # "" THEN first.raises ELSE parsed.raised
    IN  IF raised = "" THEN [raised |-> "", value |-> parsed.value, calls |-> calls]
        ELSE IF raised = "JSONDecodeError"
        THEN IF first.raises # ""
             THEN [raised |-> "UnboundLocalError", value |-> NoSummary, calls |-> calls]
             ELSE LET retry == retry_with_json_fix(email, first.text, second)
                  IN  [raised |-> retry.raised, value |-> retry.value,
                       calls |-> calls \o retry.calls]
        ELSE [raised |-> raised, value |-> NoSummary, calls |-> calls]

\* ------------------------------------------------------------------------
\* LocalSummarizer
\* ------------------------------------------------------------------------

\* LocalSummarizer._get_model_name
LocalModelName == "local/facebook/bart-large-cnn"

RECURSIVE SplitSentences(_)
\* re.split(r'[.!?]\s+', text)
SplitSentences(text) ==
    LET ends == {k \in 1..(Len(text) - 1) :
                    text[k] \in {".", "!", "?"} /\ IsSpace(text[k + 1])}
    IN  IF ends = {} THEN <<text>>
        ELSE LET k == CHOOSE i \in ends : \A j \in ends : i <= j
             IN  <<SubSeq(text, 1, k - 1)>>
                     \o SplitSentences(LStrip(SubSeq(text, k + 1, Len(text))))

\* any(keyword in sentence_lower for keyword in action_keywords)
HasActionKeyword(sentence) == Contains(sentence, "please")

RECURSIVE ActionSentences(_)
ActionSentences(sentences) ==
    IF sentences = <<>> THEN <<>>
    ELSE (IF HasActionKeyword(Head(sentences)) THEN <<Strip(Head(sentences))>> ELSE <<>>)
             \o ActionSentences(Tail(sentences))

\* LocalSummarizer._extract_actions
extract_actions(text) ==
    LET actions == ActionSentences(SplitSentences(text))
    IN  SubSeq(actions, 1, IF Len(actions) < 5 THEN Len(actions) ELSE 5)

\* A symbol made of word characters only borders no \b.
IsWord(s) == s = "a" \/ s \in DateLexemes \/ s \in {"555-123-4567", "office", "please"}

\* re.findall(pattern, text) for the date pattern matching the lexemes of
\* fmt: the matches, in text order.
RECURSIVE FindDates(_, _, _)
FindDates(text, fmt, k) ==
    IF k > Len(text) THEN <<>>
    ELSE (IF /\ text[k] \in fmt
             /\ (k = 1 \/ ~IsWord(text[k - 1]))
             /\ (k = Len(text) \/ ~IsWord(text[k + 1]))
          THEN <<text[k]>> ELSE <<>>) \o FindDates(text, fmt, k + 1)

RECURSIVE KeepDeadlines(_, _)
\* The inner loop of _extract_deadlines: a match is appended when it parses,
\* is not yet in deadlines and is not before today.
KeepDeadlines(matches, deadlines) ==
    IF matches = <<>> THEN deadlines
    ELSE LET parsed == ParseDate(Head(matches))
             seen == \E k \in 1..Len(deadlines) : deadlines[k] = parsed.day
         IN  KeepDeadlines(Tail(matches),
                 IF parsed.ok /\ ~seen /\ parsed.day >= Today
                 THEN Append(deadlines, parsed.day) ELSE deadlines)

RECURSIVE Sorted(_)
\* sorted(list) of a list of day numbers
Sorted(xs) ==
    IF xs = <<>> THEN <<>>
    ELSE LET m == CHOOSE i \in 1..Len(xs) : \A j \in 1..Len(xs) : xs[i] <= xs[j]
         IN  <<xs[m]>> \o Sorted(SubSeq(xs, 1, m - 1) \o SubSeq(xs, m + 1, Len(xs)))

\* Mutant of extract_deadlines: the list is cut to 3 entries without being
\* sorted (deadlines[:3]).
ExtractDeadlinesUnsorted(text) ==
    LET d1 == KeepDeadlines(FindDates(text, IsoDates, 1), <<>>)
        d2 == KeepDeadlines(FindDates(text, UsDates, 1), d1)
        d3 == KeepDeadlines(FindDates(text, LongDates, 1), d2)
    IN  SubSeq(d3, 1, IF Len(d3) < 3 THEN Len(d3) ELSE 3)

\* LocalSummarizer._extract_deadlines
extract_deadlines(text) ==
    LET d1 == KeepDeadlines(FindDates(text, IsoDates, 1), <<>>)
        d2 == KeepDeadlines(FindDates(text, UsDates, 1), d1)
        d3 == KeepDeadlines(FindDates(text, LongDates, 1), d2)
        sorted == Sorted(d3)
    IN  SubSeq(sorted, 1, IF Len(sorted) < 3 THEN Len(sorted) ELSE 3)

\* The input_text handed to the local model.
local_input(email) ==
    [kind |-> "local", subject |-> email.subject, sender |-> "", received_at |-> 0,
     attachment_list |-> <<>>, cleaned_body |-> truncate_body(email.cleaned_body),
     quoted |-> <<>>]

\* LocalSummarizer.summarize, given what the call of the local model does.
local_summarize(email, outcome) ==
    LET calls == <<Call("local", local_input(email))>>
    IN  IF outcome.raises # ""
        THEN [raised |-> outcome.raises, value |-> NoSummary, calls |-> calls]
        ELSE [raised |-> "",
              value |->
                [message_id |-> email.message_id,
                 sender |-> email.sender,
                 subject |-> email.subject,
                 received_at |-> email.received_at,
                 summary |-> outcome.text,
                 actions |-> extract_actions(email.cleaned_body),
                 deadlines |-> extract_deadlines(email.cleaned_body),
                 created_at |-> Today,
                 model_used |-> LocalModelName],
              calls |-> calls]

\* ------------------------------------------------------------------------
\* Inputs: what the external collaborators hand to the pipeline
\* ------------------------------------------------------------------------

Attachment(filename) == [filename |-> filename, size |-> 1, mime_type |-> "text/plain"]

RawEmail(message_id, body_html, body_text, attachments) ==
    [message_id |-> message_id, sender |-> "ann@example.com", subject |-> "report",
     received_at |-> 0, body_html |-> body_html, body_text |-> body_text,
     attachments |-> attachments, labels |-> <<>>]

\* The messages of the mailbox: a plain-text message with a quoted reply and a
\* signature, an HTML message longer than the input budget, a message with
\* no body at all (len(None) raises in clean_email), and a blank message.
Mailbox ==
    { RawEmail("m1", Some(<<>>),
               Some(<<"please", SP, "a", ".", SP, "2026-11-03", SP, "2026-11-02", NL,
                      "On Mon wrote:", NL, ">", "a", NL, "Regards,", NL, "a">>),
               <<>>),
      RawEmail("m2",
               Some(<<"<p>", "a", "a", "a", "a", "a", "a", "a", ".", "<script>",
                      "11/05/2026", SP, "Nov 4, 2026", SP, "2026-11-02", SP,
                      "11/02/2026", SP, "2026-10-31">>),
               Some(<<>>), <<Attachment("a.pdf"), Attachment("b.png")>>),
      RawEmail("m3", None, None, <<>>),
      RawEmail("m4", Some(<<>>), Some(<<NL, SP>>), <<>>) }

\* The batches fetch_emails can return: distinct messages, at most MaxBatch.
RECURSIVE Batches(_)
Batches(n) ==
    IF n = 0 THEN {<<>>}
    ELSE LET shorter == Batches(n - 1)
         IN  shorter \cup
             {Append(b, e) : b \in {x \in shorter : Len(x) = n - 1},
                             e \in Mailbox}

FetchedBatches ==
    {b \in Batches(MaxBatch) :
        \A i, j \in 1..Len(b) : i # j => b[i].message_id # b[j].message_id}

\* Responses of the remote backend.
ResponseOk ==
    <<Tok("{"), Pair("summary", <<"a">>), Pair("actions", << <<"a">> >>),
      Pair("deadlines", <<"2026-11-02", "2026-11-03">>), Tok("}")>>
ResponseWrapped ==
    <<Tok("txt"), Tok("{"), Pair("summary", <<"a">>),
      Pair("deadlines", <<"2026-11-03", "11/02/2026", "2026-11-02", "2026-11-02">>),
      Tok("}"), Tok("txt")>>
ResponseNoJson == <<Tok("txt")>>
ResponseBadJson == <<Tok("{"), Tok("txt"), Tok("}")>>
ResponseNoSummary == <<Tok("{"), Pair("actions", <<>>), Tok("}")>>

Responses ==
    {ResponseOk, ResponseWrapped, ResponseNoJson, ResponseBadJson, ResponseNoSummary}

\* What a call of client.chat.completions.create can do.
BackendOutcomes ==
    {Returned(r) : r \in Responses}
        \cup {Raised(e) : e \in {"APIConnectionError", "AuthenticationError",
                                 "JSONDecodeError"}}

\* What a call of the local summarization model can do.
LocalOutcomes == {Returned(<<"a">>), Raised("RuntimeError")}

\* What storage.save_summary can do: "" when it returns.
StoreOutcomes == {"", "OSError"}

\* Lines of a message body: empty, blank, short (under 5 characters), long,
\* quoted, a reply header, a signature delimiter, indented by four spaces
\* and by one, contact details.
CleanerLines ==
    { <<>>, <<SP>>, <<"a">>, <<"a", "a", "a", "a", "a">>, <<">", "a">>,
      <<"On Mon wrote:">>, <<"Regards,">>, <<"--">>,
      <<SP, SP, SP, SP, "a", "a", "a", "a", "a">>,
      <<SP, "a", "a", "a", "a", "a">>,
      <<"555-123-4567", SP, "office">>, <<"@">> }

RECURSIVE LineSeqs(_)
\* The sequences of 1..n lines.
LineSeqs(n) ==
    IF n = 0 THEN {}
    ELSE LET shorter == LineSeqs(n - 1)
         IN  {<<l>> : l \in CleanerLines} \cup shorter
                 \cup {Append(ls, l) : ls \in {x \in shorter : Len(x) = n - 1},
                                       l \in CleanerLines}

\* "...content...\nRegards,\nJohn\n555-123-4567"
SignatureExample == <<"a", NL, "Regards,", NL, "a", NL, "555-123-4567">>
\* A phone number with contact details in the last 40% of the lines.
ContactExample ==
    <<"a", NL, "a", NL, "a", NL, "a", NL, "555-123-4567", SP, "office", NL, "@">>
\* A reply header followed by lines prefixed with ">".
QuoteExample ==
    <<"a", "a", "a", "a", "a", NL, "On Mon wrote:", NL, ">", "a", NL, ">", "a">>

\* A reply whose quoted block holds the signature of the quoted message, as
\* a quoted line and as a bare "--", before the reply goes on.
QuotedSignatureExample ==
    <<"a", "a", "a", "a", "a", NL, "On Mon wrote:", NL, ">", SP, "--", NL, "--", NL,
      "a", "a", "a", "a", "a", "a">>

\* The body texts the cleaner is applied to.
CleanerTexts ==
    {Join(ls, NL) : ls \in LineSeqs(MaxLines)}
        \cup {SignatureExample, ContactExample, QuoteExample, QuotedSignatureExample}

RECURSIVE Strings(_, _)
\* The texts of at most n symbols of an alphabet.
Strings(alphabet, n) ==
    IF n = 0 THEN {<<>>}
    ELSE LET shorter == Strings(alphabet, n - 1)
         IN  shorter \cup {Append(t, c) : t \in {x \in shorter : Len(x) = n - 1},
                                          c \in alphabet}

\* Most entries of the deadlines list of a response handed to _parse_response.
MaxEntries == 3

\* Entries of a deadlines list: ISO dates, a date in another format, and an
\* ISO-shaped text that is no date.
DeadlineEntries == {"2026-11-03", "2026-11-02", "11/02/2026", "2026-13-45"}

\* The members a JSON object of a response may hold besides 'summary'.
ActionsMembers == {<<>>, <<Pair("actions", << <<"a">> >>)>>}
DeadlinesMembers ==
    {<<>>, <<Scalar("deadlines")>>}
        \cup {<<Pair("deadlines", ds)>> : ds \in Strings(DeadlineEntries, MaxEntries)}

\* The responses _parse_response is applied to: the responses of the remote
\* backend, braces in the wrong order, and JSON objects with and without
\* each member, bare or wrapped in other text.
ParseInputs ==
    {ResponseOk, ResponseWrapped, ResponseNoJson, ResponseBadJson, ResponseNoSummary,
     <<Tok("}"), Tok("{")>>, <<Tok("{")>>, <<Tok("}")>>}
    \cup {pre \o <<Tok("{")>> \o sm \o am \o dm \o <<Tok("}")>> \o pre :
            pre \in {<<>>, <<Tok("txt")>>},
            sm \in {<<>>, <<Pair("summary", <<"a">>)>>},
            am \in ActionsMembers,
            dm \in DeadlinesMembers}

\* The start of a body: n characters, without a period or with one early on.
BodyHeads(n) ==
    {[k \in 1..n |-> "a"], [k \in 1..n |-> IF k = 2 THEN "." ELSE "a"]}

\* The texts extract_main_content is applied to: up to MaxBlock lines, each
\* empty, blank or content with white space around it.
NormalizerTexts ==
    {Join(ls, NL) : ls \in Strings({<<>>, <<SP>>, <<SP, "a", "a", SP>>}, MaxBlock)}

\* The bodies _truncate_body is applied to: sentences of single characters,
\* up to MaxOver characters longer than the budget.  Every placement of
\* periods is taken from the character before 80% of the budget onwards,
\* and every shorter body is the start of one of these.
TruncationBodies ==
    LET max_chars == max_tokens * 4
        from == (4 * max_chars) \div 5 - 1
    IN  {SubSeq(h, 1, k) : h \in BodyHeads(from), k \in 0..from}
        \cup {h \o t : h \in BodyHeads(from),
                        t \in Strings({"a", "."}, max_chars - from + MaxOver)}

\* The texts _extract_deadlines is applied to: up to MaxDates dates, valid
\* or not, past or not, in any of the three formats, separated by spaces.
DeadlineTexts ==
    {Join([k \in 1..Len(ds) |-> <<ds[k]>>], SP) : ds \in Strings(DateLexemes, MaxDates)}

\* The RawEmails clean_email is applied to: each body absent, empty or present.
CleanInputs ==
    {RawEmail("m1", h, t, <<Attachment("a.pdf")>>) :
        h \in {Some(<<"<p>", "a">>), Some(<<"<script>", "<p>">>)},
        t \in {None, Some(<<>>)}}
    \cup {RawEmail("m1", h, t, <<>>) :
        h \in {None, Some(<<>>)},
        t \in {None} \cup {Some(x) : x \in CleanerTexts}}

\* ------------------------------------------------------------------------
\* State
\* ------------------------------------------------------------------------

VARIABLES
    pc,               \* position in process_emails, or "Returned" after a direct call
    engine,           \* the SummarizerEngine the orchestrator was built with
    dry_run,          \* the dry_run argument of process_emails
    raw_emails,       \* what fetch_emails returned
    total_fetched,
    idx,              \* position of the for loop in raw_emails
    cleaned_email,    \* local variables of the loop body
    summary,
    processed_count,
    failed_count,
    errors,
    result,           \* the ProcessingResult returned, once pc = "Done"
    stored,           \* the summaries save_summary has written, in order
    history,          \* every stage invoked so far, with its outcome
    op,               \* the summarizer method called directly, "none" if none
    op_email,         \* its CleanedEmail argument
    op_first,         \* what the backend did on the calls it received
    op_second,
    op_out,           \* what the method returned or raised, and the calls it made
    op_arg,           \* the argument of a function called on its own
    op_ret,           \* what that function returned or raised
    use_sqlite_index, \* StorageConfig.use_sqlite_index
    files,            \* the JSON files of summaries_dir
    index,            \* the rows of table summaries of index.db
    saved,            \* the arguments of the save_summary calls made, in order
    file_feedback,    \* the "feedback" entries of the JSON files, by file name
    feedback,         \* the rows of table feedback of index.db
    feedback_calls,   \* the arguments of the save_feedback calls made, in order
    request,          \* the request the feedback endpoint received
    response          \* the response it sent

vars ==
    <<pc, engine, dry_run, raw_emails, total_fetched, idx, cleaned_email, summary,
      processed_count, failed_count, errors, result, stored, history,
      op, op_email, op_first, op_second, op_out, op_arg, op_ret,
      use_sqlite_index, files, index, saved, file_feedback, feedback,
      feedback_calls, request, response>>

orch_vars ==
    <<dry_run, raw_emails, total_fetched, idx, cleaned_email, summary,
      processed_count, failed_count, errors, result, stored, history>>

op_vars == <<op, op_email, op_first, op_second, op_out, op_arg, op_ret>>

storage_vars ==
    <<use_sqlite_index, files, index, saved, file_feedback, feedback, feedback_calls>>

web_vars == <<request, response>>

\* A Python value as far as the rating checks tell values apart: its type and,
\* for a number (an int, a bool or a float), its numeric value.
PyInt(n) == [type |-> "int", num |-> n]
PyBool(n) == [type |-> "bool", num |-> n]
PyOther(type) == [type |-> type, num |-> 0]

\* value == n in Python, n an int.
PyEquals(value, n) == value.type \in {"int", "bool", "float"} /\ value.num = n

\* The JSON body of a feedback request: not a JSON object at all, or an
\* object with or without the key "rating".
FeedbackData(json, has_rating, rating) ==
    [json |-> json, has_rating |-> has_rating, rating |-> rating]

NoRequest == [message_id |-> "", data |-> FeedbackData(FALSE, FALSE, PyOther("NoneType"))]
NoResponse == [status |-> 0, error |-> ""]

\* An optional message_id.
NoneId == [some |-> FALSE, v |-> ""]
SomeId(m) == [some |-> TRUE, v |-> m]

ProcessingError(message_id, exc) ==
    [message_id |-> message_id, error_type |-> exc, error_message |-> exc]

ProcessingResult(fetched, processed, failed, dry, errs) ==
    [total_fetched |-> fetched, total_processed |-> processed,
     total_failed |-> failed, dry_run |-> dry, errors |-> errs]

\* One stage invoked for the item message_id: arg is the message_id of the
\* object handed to the stage, raised the exception it raised ("" if none).
Invoked(stage, message_id, arg, raised) ==
    [stage |-> stage, message_id |-> message_id, arg |-> arg, raised |-> raised]

Init ==
    /\ pc = "Idle"
    /\ engine \in {"remote", "local"}
    /\ dry_run = FALSE
    /\ raw_emails = <<>>
    /\ total_fetched = 0
    /\ idx = 0
    /\ cleaned_email = NoCleaned
    /\ summary = NoSummary
    /\ processed_count = 0
    /\ failed_count = 0
    /\ errors = <<>>
    /\ result = ProcessingResult(0, 0, 0, FALSE, <<>>)
    /\ stored = <<>>
    /\ history = <<>>
    /\ op = "none"
    /\ op_email = NoCleaned
    /\ op_first = Raised("")
    /\ op_second = Raised("")
    /\ op_out = [raised |-> "", value |-> NoSummary, calls |-> <<>>]
    /\ op_arg = <<>>
    /\ op_ret = <<>>
    /\ use_sqlite_index = FALSE
    /\ files = {}
    /\ index = {}
    /\ saved = <<>>
    /\ file_feedback = {}
    /\ feedback = {}
    /\ feedback_calls = <<>>
    /\ request = NoRequest
    /\ response = NoResponse

\* ------------------------------------------------------------------------
\* EmailOrchestrator.process_emails
\* ------------------------------------------------------------------------

\* process_emails(dry_run) is called: lines 51-59.
ProcessEmails(d) ==
    /\ pc = "Idle"
    /\ pc' = "Fetching"
    /\ dry_run' = d
    /\ errors' = <<>>
    /\ processed_count' = 0
    /\ failed_count' = 0
    /\ UNCHANGED <<engine, raw_emails, total_fetched, idx, cleaned_email, summary,
                   result, stored, history>>
    /\ UNCHANGED <<op_vars, storage_vars, web_vars>>

\* fetch_emails returns: lines 60-68.
FetchReturns(batch) ==
    /\ pc = "Fetching"
    /\ raw_emails' = batch
    /\ total_fetched' = Len(batch)
    /\ IF batch = <<>> THEN pc' = "Aggregating" /\ idx' = idx
                       ELSE pc' = "Cleaning" /\ idx' = 1
    /\ history' = Append(history, Invoked("fetch", "", "", ""))
    /\ UNCHANGED <<engine, dry_run, cleaned_email, summary, processed_count,
                   failed_count, errors, result, stored>>
    /\ UNCHANGED <<op_vars, storage_vars, web_vars>>

\* Mutant of FetchRaises: the fatal error is counted as one failed item.
FetchRaisesCountsFailure(exc) ==
    /\ pc = "Fetching"
    /\ result' = ProcessingResult(0, 0, 1, dry_run, <<ProcessingError(NoneId, exc)>>)
    /\ pc' = "Done"
    /\ history' = Append(history, Invoked("fetch", "", "", exc))
    /\ UNCHANGED <<engine, dry_run, raw_emails, total_fetched, idx, cleaned_email,
                   summary, processed_count, failed_count, errors, stored>>
    /\ UNCHANGED <<op_vars, storage_vars, web_vars>>

\* Mutant of FetchRaises: there is no outer except clause, the exception of
\* fetch_emails reaches the caller.
FetchRaisesPropagates(exc) ==
    /\ pc = "Fetching"
    /\ pc' = "Raised"
    /\ history' = Append(history, Invoked("fetch", "", "", exc))
    /\ UNCHANGED <<engine, dry_run, raw_emails, total_fetched, idx, cleaned_email,
                   summary, processed_count, failed_count, errors, stored, result>>
    /\ UNCHANGED <<op_vars, storage_vars, web_vars>>

\* fetch_emails raises: the outer except clause, lines 112-124.
FetchRaises(exc) ==
    /\ pc = "Fetching"
    /\ result' = ProcessingResult(0, 0, 0, dry_run, <<ProcessingError(NoneId, exc)>>)
    /\ pc' = "Done"
    /\ history' = Append(history, Invoked("fetch", "", "", exc))
    /\ UNCHANGED <<engine, dry_run, raw_emails, total_fetched, idx, cleaned_email,
                   summary, processed_count, failed_count, errors, stored>>
    /\ UNCHANGED <<op_vars, storage_vars, web_vars>>

\* Mutant of Advance: the loop steps over every other item.
AdvanceSkipsItem ==
    IF idx + 1 < Len(raw_emails) THEN pc' = "Cleaning" /\ idx' = idx + 2
                                 ELSE pc' = "Aggregating" /\ idx' = idx

\* The for loop moves to the next item, or ends.
Advance ==
    IF idx < Len(raw_emails) THEN pc' = "Cleaning" /\ idx' = idx + 1
                             ELSE pc' = "Aggregating" /\ idx' = idx

\* Mutant of ItemFailed: the exception ends the loop (a break, or a handler
\* placed around the loop instead of inside it).
ItemFailedAborts(exc) ==
    /\ failed_count' = failed_count + 1
    /\ errors' = Append(errors, ProcessingError(SomeId(raw_emails[idx].message_id), exc))
    /\ pc' = "Aggregating"
    /\ idx' = idx
    /\ UNCHANGED processed_count

\* Mutant of ItemFailed: errors.insert(0, error) instead of errors.append(error).
ItemFailedPrepends(exc) ==
    /\ failed_count' = failed_count + 1
    /\ errors' = <<ProcessingError(SomeId(raw_emails[idx].message_id), exc)>> \o errors
    /\ Advance
    /\ UNCHANGED processed_count

\* Mutant of ItemFailed: the error is recorded but failed_count is left as
\* it was.
ItemFailedUncounted(exc) ==
    /\ errors' = Append(errors, ProcessingError(SomeId(raw_emails[idx].message_id), exc))
    /\ Advance
    /\ UNCHANGED <<processed_count, failed_count>>

\* The inner except clause, lines 91-99.
ItemFailed(exc) ==
    /\ failed_count' = failed_count + 1
    /\ errors' = Append(errors, ProcessingError(SomeId(raw_emails[idx].message_id), exc))
    /\ Advance
    /\ UNCHANGED processed_count

\* processed_count += 1, lines 77 and 88.
ItemProcessed ==
    /\ processed_count' = processed_count + 1
    /\ Advance
    /\ UNCHANGED <<failed_count, errors>>

\* Mutant of Clean: the dry-run branch is missing.
CleanIgnoresDryRun ==
    /\ pc = "Cleaning"
    /\ LET raw_email == raw_emails[idx]
           r == clean_email(raw_email)
       IN  /\ history' = Append(history, Invoked("clean", raw_email.message_id,
                                                 raw_email.message_id, r.raised))
           /\ IF r.raised # "" THEN ItemFailed(r.raised) /\ UNCHANGED cleaned_email
              ELSE /\ cleaned_email' = r.value
                   /\ pc' = "Summarizing"
                   /\ UNCHANGED <<idx, processed_count, failed_count, errors>>
    /\ UNCHANGED <<engine, dry_run, raw_emails, total_fetched, summary, result, stored>>
    /\ UNCHANGED <<op_vars, storage_vars, web_vars>>

\* Lines 70-78: clean_email, and the dry-run branch.
Clean ==
    /\ pc = "Cleaning"
    /\ LET raw_email == raw_emails[idx]
           r == clean_email(raw_email)
       IN  /\ history' = Append(history, Invoked("clean", raw_email.message_id,
                                                 raw_email.message_id, r.raised))
           /\ IF r.raised # "" THEN ItemFailed(r.raised) /\ UNCHANGED cleaned_email
              ELSE /\ cleaned_email' = r.value
                   /\ IF dry_run THEN ItemProcessed
                      ELSE /\ pc' = "Summarizing"
                           /\ UNCHANGED <<idx, processed_count, failed_count, errors>>
    /\ UNCHANGED <<engine, dry_run, raw_emails, total_fetched, summary, result, stored>>
    /\ UNCHANGED <<op_vars, storage_vars, web_vars>>

\* Lines 80-82, given what summarize returned or raised.
Summarized(r) ==
    /\ history' = Append(history, Invoked("summarize", raw_emails[idx].message_id,
                                          cleaned_email.message_id, r.raised))
    /\ IF r.raised # "" THEN ItemFailed(r.raised) /\ UNCHANGED summary
       ELSE /\ summary' = r.value
            /\ pc' = "Storing"
            /\ UNCHANGED <<idx, processed_count, failed_count, errors>>
    /\ UNCHANGED <<engine, dry_run, raw_emails, total_fetched, cleaned_email,
                   result, stored>>
    /\ UNCHANGED <<op_vars, storage_vars, web_vars>>

Summarize ==
    /\ pc = "Summarizing"
    /\ \/ /\ engine = "remote"
          /\ \E first, second \in BackendOutcomes :
                Summarized(remote_summarize(cleaned_email, first, second))
       \/ /\ engine = "local"
          /\ \E outcome \in LocalOutcomes :
                Summarized(local_summarize(cleaned_email, outcome))

\* Mutant of Store: processed_count += 1 comes before save_summary, so an
\* item whose save raises is counted as processed and as failed.
StoreCountsBeforeSave(exc) ==
    /\ pc = "Storing"
    /\ history' = Append(history, Invoked("store", raw_emails[idx].message_id,
                                          summary.message_id, exc))
    /\ processed_count' = processed_count + 1
    /\ Advance
    /\ IF exc # ""
       THEN /\ failed_count' = failed_count + 1
            /\ errors' = Append(errors,
                    ProcessingError(SomeId(raw_emails[idx].message_id), exc))
            /\ UNCHANGED stored
       ELSE stored' = Append(stored, summary) /\ UNCHANGED <<failed_count, errors>>
    /\ UNCHANGED <<engine, dry_run, raw_emails, total_fetched, cleaned_email,
                   summary, result>>
    /\ UNCHANGED <<op_vars, storage_vars, web_vars>>

\* Lines 84-89: save_summary returns (exc = "") or raises.
Store(exc) ==
    /\ pc = "Storing"
    /\ history' = Append(history, Invoked("store", raw_emails[idx].message_id,
                                          summary.message_id, exc))
    /\ IF exc # "" THEN ItemFailed(exc) /\ UNCHANGED stored
       ELSE stored' = Append(stored, summary) /\ ItemProcessed
    /\ UNCHANGED <<engine, dry_run, raw_emails, total_fetched, cleaned_email,
                   summary, result>>
    /\ UNCHANGED <<op_vars, storage_vars, web_vars>>

\* Lines 101-110.
Aggregate ==
    /\ pc = "Aggregating"
    /\ result' = ProcessingResult(total_fetched, processed_count, failed_count,
                                  dry_run, errors)
    /\ pc' = "Done"
    /\ UNCHANGED <<engine, dry_run, raw_emails, total_fetched, idx, cleaned_email,
                   summary, processed_count, failed_count, errors, stored, history>>
    /\ UNCHANGED <<op_vars, storage_vars, web_vars>>

\* ------------------------------------------------------------------------
\* The summarizer's methods called on their own
\* ------------------------------------------------------------------------

\* The CleanedEmails clean_email produces from the mailbox.
CleanedEmails == {clean_email(e).value : e \in {x \in Mailbox : clean_email(x).raised = ""}}

\* A method of the summarizer is called with email and returns: what the
\* backend did (op_first, op_second) and the outcome (op_out) are recorded
\* by the action of each method.
Called(name, email) ==
    /\ pc = "Idle"
    /\ pc' = "Returned"
    /\ op' = name
    /\ op_email' = email
    /\ UNCHANGED <<engine, op_arg, op_ret>>
    /\ UNCHANGED <<orch_vars, storage_vars, web_vars>>

\* RemoteSummarizer.summarize(email)
CallRemoteSummarize(email, first, second) ==
    /\ Called("summarize", email)
    /\ op_first' = first
    /\ op_second' = second
    /\ op_out' = remote_summarize(email, first, second)

\* RemoteSummarizer._retry_with_json_fix(email, previous_response)
CallRetryWithJsonFix(email, previous_response, outcome) ==
    /\ Called("_retry_with_json_fix", email)
    /\ op_first' = Returned(previous_response)
    /\ op_second' = outcome
    /\ op_out' = retry_with_json_fix(email, previous_response, outcome)

\* SummarizerEngine._parse_response(response_text, email) of the remote engine
CallParseResponse(email, response_text) ==
    /\ Called("_parse_response", email)
    /\ op_first' = Returned(response_text)
    /\ op_second' = Raised("")
    /\ op_out' = [raised |-> parse_response(response_text, email, RemoteModelName).raised,
                  value |-> parse_response(response_text, email, RemoteModelName).value,
                  calls |-> <<>>]

\* LocalSummarizer.summarize(email)
CallLocalSummarize(email, outcome) ==
    /\ Called("local_summarize", email)
    /\ op_first' = outcome
    /\ op_second' = Raised("")
    /\ op_out' = local_summarize(email, outcome)

\* A function of the cleaner or of the summarizer is called on its own.
Applied(name) ==
    /\ pc = "Idle"
    /\ pc' = "Returned"
    /\ op' = name
    /\ UNCHANGED <<engine, op_email, op_first, op_second, op_out>>
    /\ UNCHANGED <<orch_vars, storage_vars, web_vars>>

\* EmailPreprocessor.clean_email(raw_email)
CallCleanEmail(raw_email) ==
    /\ Applied("clean_email")
    /\ op_arg' = raw_email
    /\ op_ret' = clean_email(raw_email)

\* EmailPreprocessor.remove_quoted_replies(text)
CallRemoveQuotedReplies(text) ==
    /\ Applied("remove_quoted_replies")
    /\ op_arg' = text
    /\ op_ret' = remove_quoted_replies(text)

\* EmailPreprocessor.remove_signature(text)
CallRemoveSignature(text) ==
    /\ Applied("remove_signature")
    /\ op_arg' = text
    /\ op_ret' = remove_signature(text)

\* EmailPreprocessor.extract_main_content(text)
CallExtractMainContent(text) ==
    /\ Applied("extract_main_content")
    /\ op_arg' = text
    /\ op_ret' = extract_main_content(text)

\* SummarizerEngine._truncate_body(body)
CallTruncateBody(body) ==
    /\ Applied("_truncate_body")
    /\ op_arg' = body
    /\ op_ret' = truncate_body(body)

\* LocalSummarizer._extract_deadlines(text)
CallExtractDeadlines(text) ==
    /\ Applied("_extract_deadlines")
    /\ op_arg' = text
    /\ op_ret' = extract_deadlines(text)

\* ------------------------------------------------------------------------
\* EmailOrchestrator.process_single_email
\* ------------------------------------------------------------------------

\* What fetcher.get_email_body can do: raise, or return the body, a str
\* (email.body_html or email.body_text), which is empty when both are.
FetchBodyOutcomes ==
    {Raised("HttpError"), Returned(<<>>), Returned(<<"a", ".", SP, "a">>),
     Returned(<<"<p>", "a">>)}

\* A Python object handed to clean_email: a str or a RawEmail.
PyStr(text) == [type |-> "str", value |-> text]

\* preprocessor.clean_email(obj): raw_email.body_html (cleaner.py:48) raises
\* AttributeError unless obj is a RawEmail.
clean_email_call(obj) ==
    IF obj.type = "RawEmail" THEN clean_email(obj.value)
    ELSE [raised |-> "AttributeError", value |-> NoCleaned]

\* process_single_email(message_id) with the engine kind in use, given what
\* get_email_body, the engine's backend and save_summary do: the exception
\* raised ("" if none), the summary returned, the stages invoked and the
\* summaries saved.
process_single_email(message_id, kind, fetched, outcome, store_exc) ==
    LET failed(exc, stages) ==
            [raised |-> exc, value |-> NoSummary, stages |-> stages, saved |-> <<>>]
        cleaned == clean_email_call(PyStr(fetched.text))
        clean_stage == <<Invoked("clean", message_id, message_id, cleaned.raised)>>
        summarized ==
            IF kind = "remote"
            THEN remote_summarize(cleaned.value, outcome, Raised(""))
            ELSE local_summarize(cleaned.value, outcome)
        summarize_stage ==
            <<Invoked("summarize", message_id, cleaned.value.message_id,
                      summarized.raised)>>
        store_stage ==
            <<Invoked("store", message_id, summarized.value.message_id, store_exc)>>
    IN  IF fetched.raises # "" THEN failed(fetched.raises, <<>>)
        ELSE IF fetched.text = <<>> THEN failed("ValueError", <<>>)
        ELSE IF cleaned.raised # "" THEN failed(cleaned.raised, clean_stage)
        ELSE IF summarized.raised # ""
             THEN failed(summarized.raised, clean_stage \o summarize_stage)
        ELSE IF store_exc # ""
             THEN failed(store_exc, clean_stage \o summarize_stage \o store_stage)
        ELSE [raised |-> "", value |-> summarized.value,
              stages |-> clean_stage \o summarize_stage \o store_stage,
              saved |-> <<summarized.value>>]

\* What the backend of the engine in use does in process_single_email.
SingleEmailBackend ==
    {Returned(ResponseOk), Raised("APIConnectionError"), Returned(<<"a">>)}

\* EmailOrchestrator.process_single_email(message_id)
CallProcessSingleEmail(message_id, fetched, outcome, store_exc) ==
    /\ Applied("process_single_email")
    /\ op_arg' = [message_id |-> message_id, fetched |-> fetched,
                  backend |-> outcome, store |-> store_exc]
    /\ op_ret' = process_single_email(message_id, engine, fetched, outcome, store_exc)

\* ------------------------------------------------------------------------
\* StorageManager (src/email_summarizer/storage/manager.py)
\* ------------------------------------------------------------------------

\* Message ids of stored summaries: "m1" is a substring of "m10".
StorageIds == {"m1", "m10"}

\* `a in b` for two message ids.
IsSubstring(a, b) == a = b \/ (a = "m1" /\ b = "m10")

\* date.isoformat() of a day number.
IsoFormat(day) ==
    CASE day = 0 -> "2026-10-31"
      [] day = 1 -> "2026-11-01"
      [] day = 2 -> "2026-11-02"
      [] day = 3 -> "2026-11-03"
      [] OTHER -> "2026-11-04"

\* The EmailSummaries handed to save_summary: two ids, received on one of two
\* days, in one of two versions of the summary text.
SaveInputs ==
    {[message_id |-> id, sender |-> "ann@example.com", subject |-> "report",
      received_at |-> day, summary |-> text, actions |-> <<>>, deadlines |-> <<2>>,
      created_at |-> Today, model_used |-> RemoteModelName] :
        id \in StorageIds, day \in {0, 1}, text \in {<<"a">>, <<"b">>}}

\* An optional EmailSummary.
NoneSummary == [some |-> FALSE, v |-> NoSummary]
SomeSummary(email_summary) == [some |-> TRUE, v |-> email_summary]

\* f"{date_str}_{summary.message_id}.json" (lines 78-80)
FileName(email_summary) == <<email_summary.received_at, email_summary.message_id>>

\* `message_id in file_path.name` (lines 112, 164)
NameContains(name, message_id) == IsSubstring(message_id, name[2])

\* StorageManager._summary_to_dict
summary_to_dict(email_summary) ==
    [email_summary EXCEPT !.deadlines = [k \in 1..Len(@) |-> IsoFormat(@[k])]]

\* StorageManager._dict_to_summary
dict_to_summary(data) ==
    [data EXCEPT !.deadlines = [k \in 1..Len(@) |-> ParseDate(@[k]).day]]

\* StorageManager._load_summary_from_file: None when the file cannot be read.
load_summary_from_file(name) ==
    IF \E f \in files : f.name = name
    THEN SomeSummary(dict_to_summary((CHOOSE f \in files : f.name = name).data))
    ELSE NoneSummary

\* StorageManager.get_summary: the values it can return.  The directory scan
\* returns the first matching file in the order glob yields them, which is
\* arbitrary.
get_summary(message_id) ==
    LET rows == {r \in index : r.message_id = message_id}
        matching == {f \in files : NameContains(f.name, message_id)}
    IN  IF use_sqlite_index /\ rows # {}
        THEN {load_summary_from_file((CHOOSE r \in rows : TRUE).file_path)}
        ELSE IF matching # {}
        THEN {load_summary_from_file(f.name) : f \in matching}
        ELSE {NoneSummary}

\* StorageManager.__init__ (lines 19-34)
OpenStorage(use_index) ==
    /\ pc = "Idle"
    /\ pc' = "Storage"
    /\ use_sqlite_index' = use_index
    /\ UNCHANGED <<files, index, saved, file_feedback, feedback, feedback_calls>>
    /\ UNCHANGED <<engine, orch_vars, op_vars, web_vars>>

\* StorageManager.save_summary (lines 71-93) with _index_summary (308-337):
\* the file named after the received date and the message_id is written, and
\* the row of the message_id is inserted or replaced.
SaveSummary(email_summary) ==
    /\ pc = "Storage"
    /\ Len(saved) < MaxSaves
    /\ files' = {f \in files : f.name # FileName(email_summary)}
                    \cup {[name |-> FileName(email_summary),
                           data |-> summary_to_dict(email_summary)]}
    /\ index' = IF use_sqlite_index
                THEN {r \in index : r.message_id # email_summary.message_id}
                        \cup {[message_id |-> email_summary.message_id,
                               file_path |-> FileName(email_summary)]}
                ELSE index
    /\ saved' = Append(saved, email_summary)
    /\ file_feedback' = {r \in file_feedback : r.name # FileName(email_summary)}
    /\ UNCHANGED <<pc, use_sqlite_index, feedback, feedback_calls>>
    /\ UNCHANGED <<engine, orch_vars, op_vars, web_vars>>

\* StorageManager.get_summary (lines 95-115)
GetSummary(message_id) ==
    /\ pc = "Storage"
    /\ pc' = "Returned"
    /\ op' = "get_summary"
    /\ op_arg' = message_id
    /\ op_ret' \in get_summary(message_id)
    /\ UNCHANGED <<op_email, op_first, op_second, op_out>>
    /\ UNCHANGED <<engine, orch_vars, storage_vars, web_vars>>

\* StorageManager.delete_summary (lines 156-176): the first file, in the
\* arbitrary order of glob, whose name contains message_id is unlinked, and
\* the rows of message_id are deleted from both tables of the index.
DeleteSummary(message_id) ==
    /\ pc = "Storage"
    /\ LET matching == {f \in files : NameContains(f.name, message_id)}
       IN  IF matching = {}
           THEN UNCHANGED <<files, file_feedback>>
           ELSE \E f \in matching :
                   /\ files' = files \ {f}
                   /\ file_feedback' = {r \in file_feedback : r.name # f.name}
    /\ index' = IF use_sqlite_index
                THEN {r \in index : r.message_id # message_id}
                ELSE index
    /\ feedback' = IF use_sqlite_index
                   THEN {r \in feedback : r.message_id # message_id}
                   ELSE feedback
    /\ pc' = "Returned"
    /\ op' = "delete_summary"
    /\ op_arg' = message_id
    /\ op_ret' = NoneSummary
    /\ UNCHANGED <<use_sqlite_index, saved, feedback_calls>>
    /\ UNCHANGED <<op_email, op_first, op_second, op_out>>
    /\ UNCHANGED <<engine, orch_vars, web_vars>>

\* ------------------------------------------------------------------------
\* Feedback (src/email_summarizer/models.py) and the feedback endpoint
\* (src/email_summarizer/web/server.py)
\* ------------------------------------------------------------------------

\* Ratings a caller can supply: 1, -1, 0, 5, True, a str, None.
Ratings ==
    {PyInt(1), PyInt(-1), PyInt(0), PyInt(5), PyBool(1), PyOther("str"),
     PyOther("NoneType")}

Feedback(rating, created_at) == [rating |-> rating, created_at |-> created_at]

\* Feedback objects: created_at is a day, or None.
Feedbacks ==
    {Feedback(rating, created_at) :
        rating \in Ratings,
        created_at \in {[some |-> FALSE, v |-> 0], [some |-> TRUE, v |-> Today]}}

\* Feedback.validate: the list of errors.
Feedback_validate(fb) ==
    (IF ~(PyEquals(fb.rating, 1) \/ PyEquals(fb.rating, -1))
     THEN <<"rating must be 1 (thumbs up) or -1 (thumbs down)">>
     ELSE <<>>)
    \o (IF ~fb.created_at.some THEN <<"created_at is required">> ELSE <<>>)

\* Feedback.validate called on its own.
CallFeedbackValidate(fb) ==
    /\ Applied("Feedback.validate")
    /\ op_arg' = fb
    /\ op_ret' = Feedback_validate(fb)

\* Bodies of the requests posted to the feedback endpoint.
FeedbackRequests ==
    {FeedbackData(FALSE, FALSE, PyOther("NoneType")),
     FeedbackData(TRUE, FALSE, PyOther("NoneType"))}
        \cup {FeedbackData(TRUE, TRUE, rating) : rating \in Ratings}

Response(status, error) == [status |-> status, error |-> error]

\* Mutant of submit_feedback: the rating is not compared with 1 and -1.
SubmitFeedbackUnchecked(data) ==
    IF ~data.json THEN Response(500, "TypeError")
    ELSE IF ~data.has_rating THEN Response(400, "Rating is required")
    ELSE Response(200, "")

\* submit_feedback up to the call of storage.save_feedback (lines 132-141):
\* the error response, or status 200 when the request goes on to be saved.
\* A body that is not a JSON object makes get_json raise or return None, and
\* then the test "rating" in data raise; the handler answers 500.
submit_feedback(data) ==
    IF ~data.json THEN Response(500, "TypeError")
    ELSE IF ~data.has_rating THEN Response(400, "Rating is required")
    ELSE IF ~(PyEquals(data.rating, 1) \/ PyEquals(data.rating, -1))
    THEN Response(400, "Rating must be 1 or -1")
    ELSE Response(200, "")

\* POST /api/summaries/<message_id>/feedback, with StorageManager.save_feedback
\* (manager.py lines 195-229): the summary get_summary finds is saved again
\* with the feedback, and the row of the message_id is inserted or replaced.
\* save_exc is the exception save_feedback raises before it writes ("" if
\* none).
SubmitFeedback(message_id, data, save_exc) ==
    /\ pc = "Storage"
    /\ pc' = "Returned"
    /\ request' = [message_id |-> message_id, data |-> data]
    /\ IF submit_feedback(data).status # 200
       THEN /\ response' = submit_feedback(data)
            /\ UNCHANGED storage_vars
       ELSE /\ feedback_calls' =
                 Append(feedback_calls,
                        [message_id |-> message_id, rating |-> data.rating])
            /\ IF save_exc # ""
               THEN /\ response' = Response(500, save_exc)
                    /\ UNCHANGED <<use_sqlite_index, files, index, saved,
                                   file_feedback, feedback>>
               ELSE /\ response' = Response(200, "")
                    /\ \E found \in get_summary(message_id) :
                         IF found.some
                         THEN /\ files' =
                                   {f \in files : f.name # FileName(found.v)}
                                       \cup {[name |-> FileName(found.v),
                                              data |-> summary_to_dict(found.v)]}
                              /\ index' =
                                   IF use_sqlite_index
                                   THEN {r \in index : r.message_id # found.v.message_id}
                                           \cup {[message_id |-> found.v.message_id,
                                                  file_path |-> FileName(found.v)]}
                                   ELSE index
                              /\ saved' = Append(saved, found.v)
                              /\ file_feedback' =
                                   {r \in file_feedback : r.name # FileName(found.v)}
                                       \cup {[name |-> FileName(found.v),
                                              rating |-> data.rating]}
                         ELSE UNCHANGED <<files, index, saved, file_feedback>>
                    /\ feedback' =
                         IF use_sqlite_index
                         THEN {r \in feedback : r.message_id # message_id}
                                 \cup {[message_id |-> message_id,
                                        rating |-> data.rating]}
                         ELSE feedback
                    /\ UNCHANGED use_sqlite_index
    /\ UNCHANGED <<engine, orch_vars, op_vars>>

\* A step of process_emails once it has been called.
Running ==
    \/ \E batch \in FetchedBatches : FetchReturns(batch)
    \/ FetchRaises("HttpError")
    \/ Clean
    \/ Summarize
    \/ \E exc \in StoreOutcomes : Store(exc)
    \/ Aggregate

\* ---- utils/retry.py ----

\* RetryConfig(max_attempts, initial_delay, max_delay, exponential_base)
RetryConfig(max_attempts, initial_delay, max_delay, exponential_base) ==
    [max_attempts |-> max_attempts, initial_delay |-> initial_delay,
     max_delay |-> max_delay, exponential_base |-> exponential_base]

\* base ** n
RECURSIVE Power(_, _)
Power(base, n) == IF n = 0 THEN 1 ELSE base * Power(base, n - 1)

\* min(a, b)
Min(a, b) == IF a <= b THEN a ELSE b

\* RetryConfig.get_delay(attempt)
get_delay(config, attempt) ==
    LET delay == config.initial_delay * Power(config.exponential_base, attempt)
    IN  Min(delay, config.max_delay)

\* isinstance(e, exceptions): every exception a wrapped function raises here
\* derives from Exception.
IsInstance(exc, exceptions) == "Exception" \in exceptions \/ exc \in exceptions

\* What a wrapper did, in order: a call of the wrapped function, or a
\* time.sleep(delay), on the given attempt.
CallEvent(attempt) == [ev |-> "call", attempt |-> attempt, delay |-> 0]
SleepEvent(attempt, delay) == [ev |-> "sleep", attempt |-> attempt, delay |-> delay]

\* What a wrapper returned or raised, and what it did before.
Wrapped(raises, text, log) == [raises |-> raises, text |-> text, log |-> log]

SleepsAfterEveryFailure(config, attempt) == attempt < config.max_attempts

\* attempt < config.max_attempts - 1
MoreAttempts(config, attempt) == attempt < config.max_attempts - 1

\* The for loop of retry_with_backoff's wrapper from the given attempt on;
\* outcomes[k] is what the k-th call of the wrapped function does. The
\* statement after the loop raises last_exception, and raising None is a
\* TypeError.
RECURSIVE RetryLoop(_, _, _, _, _, _)
RetryLoop(config, exceptions, outcomes, attempt, last_exception, log) ==
    IF attempt >= config.max_attempts
    THEN Wrapped(IF last_exception = "None" THEN "TypeError" ELSE last_exception,
                 <<>>, log)
    ELSE LET outcome == outcomes[attempt + 1]
             called == Append(log, CallEvent(attempt))
         IN  IF outcome.raises = ""
             THEN Wrapped("", outcome.text, called)
             ELSE IF ~IsInstance(outcome.raises, exceptions)
             THEN Wrapped(outcome.raises, <<>>, called)
             ELSE RetryLoop(config, exceptions, outcomes, attempt + 1,
                            outcome.raises,
                            IF MoreAttempts(config, attempt)
                            THEN Append(called,
                                        SleepEvent(attempt, get_delay(config, attempt)))
                            ELSE called)

\* retry_with_backoff(config, exceptions)(func)()
retry_with_backoff(config, exceptions, outcomes) ==
    RetryLoop(config, exceptions, outcomes, 0, "None", <<>>)

\* The most attempts a RetryConfig of the model allows.
MaxAttempts == 3

\* What one call of a wrapped function does.
FuncOutcomes ==
    {Returned(<<"a">>), Returned(<<"b">>), Raised("ConnectionError"),
     Raised("ValueError")}

\* The RetryConfig objects of the model: the defaults except for max_attempts
\* and for a max_delay the second delay already exceeds.
RetryConfigs ==
    {RetryConfig(n, 1, max_delay, 2) : n \in 0..MaxAttempts, max_delay \in {1, 60}}

\* The exceptions argument: the default (Exception,) or one class.
ExceptionTuples == {{"Exception"}, {"ConnectionError"}}

\* A call of a function wrapped by retry_with_backoff(config, exceptions).
CallRetryWithBackoff(config, exceptions, outcomes) ==
    /\ Applied("retry_with_backoff")
    /\ op_arg' = [config |-> config, exceptions |-> exceptions, outcomes |-> outcomes]
    /\ op_ret' = retry_with_backoff(config, exceptions, outcomes)

\* The RetryConfig handle_rate_limit builds.
RateLimitConfig == RetryConfig(5, 1, 60, 2)

IsAnyException(exc) == TRUE

\* except RateLimitError
IsRateLimitError(exc) == exc = "RateLimitError"

\* The for loop of handle_rate_limit's wrapper from the given attempt on;
\* outcomes[k] is what the k-th call of the wrapped function does.
RECURSIVE RateLimitLoop(_, _, _)
RateLimitLoop(outcomes, attempt, log) ==
    LET config == RateLimitConfig
    IN  IF attempt >= config.max_attempts
        THEN Wrapped("RateLimitError", <<>>, log)
        ELSE LET outcome == outcomes[attempt + 1]
                 called == Append(log, CallEvent(attempt))
             IN  IF outcome.raises = ""
                 THEN Wrapped("", outcome.text, called)
                 ELSE IF IsRateLimitError(outcome.raises)
                 THEN IF attempt < config.max_attempts - 1
                      THEN RateLimitLoop(outcomes, attempt + 1,
                               Append(called,
                                      SleepEvent(attempt, get_delay(config, attempt))))
                      ELSE Wrapped(outcome.raises, <<>>, called)
                 ELSE Wrapped(outcome.raises, <<>>, called)

\* handle_rate_limit(func)()
handle_rate_limit(outcomes) == RateLimitLoop(outcomes, 0, <<>>)

\* What one call of a function wrapped by handle_rate_limit does.
RateLimitOutcomes ==
    {Returned(<<"a">>), Returned(<<"b">>), Raised("RateLimitError"),
     Raised("ValueError")}

\* A call of a function wrapped by handle_rate_limit.
CallHandleRateLimit(outcomes) ==
    /\ Applied("handle_rate_limit")
    /\ op_arg' = [outcomes |-> outcomes]
    /\ op_ret' = handle_rate_limit(outcomes)

\* The inputs of a function called on its own: such a call is made on the
\* state after construction only.
Inputs(values) == IF pc = "Idle" THEN values ELSE {}

Next ==
    \/ \E d \in BOOLEAN : ProcessEmails(d)
    \/ \E batch \in FetchedBatches : FetchReturns(batch)
    \/ FetchRaises("HttpError")
    \/ Clean
    \/ Summarize
    \/ \E exc \in StoreOutcomes : Store(exc)
    \/ Aggregate
    \/ \E email \in Inputs(CleanedEmails), first, second \in BackendOutcomes :
          CallRemoteSummarize(email, first, second)
    \/ \E email \in Inputs(CleanedEmails), previous \in Responses,
          outcome \in BackendOutcomes :
          CallRetryWithJsonFix(email, previous, outcome)
    \/ \E email \in Inputs(CleanedEmails), outcome \in LocalOutcomes :
          CallLocalSummarize(email, outcome)
    \/ \E email \in Inputs(CleanedEmails), response_text \in ParseInputs :
          CallParseResponse(email, response_text)
    \/ \E raw_email \in Inputs(CleanInputs) : CallCleanEmail(raw_email)
    \/ \E message_id \in {"m1"}, fetched \in FetchBodyOutcomes,
          outcome \in SingleEmailBackend,
          store_exc \in StoreOutcomes :
          CallProcessSingleEmail(message_id, fetched, outcome, store_exc)
    \/ \E fb \in Feedbacks : CallFeedbackValidate(fb)
    \/ \E text \in Inputs(CleanerTexts) : CallRemoveQuotedReplies(text)
    \/ \E text \in Inputs(CleanerTexts) : CallRemoveSignature(text)
    \/ \E text \in Inputs(NormalizerTexts) : CallExtractMainContent(text)
    \/ \E body \in Inputs(TruncationBodies) : CallTruncateBody(body)
    \/ \E text \in Inputs(DeadlineTexts) : CallExtractDeadlines(text)
    \/ \E config \in Inputs(RetryConfigs), exceptions \in ExceptionTuples,
          outcomes \in [1..MaxAttempts -> FuncOutcomes] :
          CallRetryWithBackoff(config, exceptions, outcomes)
    \/ \E outcomes \in
          Inputs([1..RateLimitConfig.max_attempts -> RateLimitOutcomes]) :
          CallHandleRateLimit(outcomes)
    \/ \E use_index \in BOOLEAN : OpenStorage(use_index)
    \/ \E s \in SaveInputs : SaveSummary(s)
    \/ \E message_id \in StorageIds : GetSummary(message_id)
    \/ \E message_id \in StorageIds : DeleteSummary(message_id)
    \/ \E message_id \in StorageIds, data \in FeedbackRequests,
          save_exc \in StoreOutcomes :
          SubmitFeedback(message_id, data, save_exc)

Spec == Init /\ [][Next]_vars

\* The calls of process_emails alone.
BatchNext ==
    \/ \E d \in BOOLEAN : ProcessEmails(d)
    \/ Running

\* The positions of a call of process_emails that has not returned.
Busy == {"Fetching", "Cleaning", "Summarizing", "Storing", "Aggregating"}

\* The call in progress takes its next step.  These are the steps of Running:
\* each of them moves pc or idx, and no other step of BatchNext is possible
\* while the call is in progress.
Proceeds ==
    /\ pc \in Busy
    /\ pc' \in Busy \cup {"Done"}
    /\ idx' \in {idx, idx + 1}
    /\ <<pc', idx'>> # <<pc, idx>>

\* process_emails runs in one thread and every collaborator it calls returns
\* or raises: a call that was made goes on until it returns.
FairSpec == Init /\ [][BatchNext]_vars /\ WF_<<pc, idx>>(Proceeds)

\* ------------------------------------------------------------------------
\* Properties
\* ------------------------------------------------------------------------

\* The indexes of the history entries satisfying a condition.
FetchFailed == \E i \in 1..Len(history) :
                  history[i].stage = "fetch" /\ history[i].raised # ""
BatchDone == pc = "Done" /\ ~FetchFailed
StageCalls(stage) == {i \in 1..Len(history) : history[i].stage = stage}
RaisedFor(m) == {i \in 1..Len(history) :
                    /\ history[i].stage # "fetch"
                    /\ history[i].message_id = m
                    /\ history[i].raised # ""}
ErrorsFor(m) == {i \in 1..Len(result.errors) : result.errors[i].message_id = SomeId(m)}

\* C1: in process_emails an exception raised by Clean, Summarize or Store on
\* an item is recorded as exactly one ProcessingError for that item, and every
\* fetched item is still taken through Clean: no item's failure ends the batch.
C1_ItemFailureIsolated ==
    BatchDone =>
        \A k \in 1..Len(raw_emails) :
            LET m == raw_emails[k].message_id
            IN  /\ Cardinality({i \in StageCalls("clean") : history[i].message_id = m}) = 1
                /\ Cardinality(RaisedFor(m)) <= 1
                /\ Cardinality(ErrorsFor(m)) = Cardinality(RaisedFor(m))
                /\ \A i \in RaisedFor(m) : \A j \in ErrorsFor(m) :
                      result.errors[j].error_type = history[i].raised

\* A batch in which an item failed and a later item was stored.
C1_Witness ==
    /\ BatchDone
    /\ \E i, j \in 1..Len(history) :
          /\ i < j
          /\ history[i].stage \in {"clean", "summarize", "store"}
          /\ history[i].raised # ""
          /\ history[j].stage = "store"
          /\ history[j].raised = ""
          /\ history[j].message_id # history[i].message_id

\* C2: when fetch raises, process_emails returns all three counters at 0 and
\* exactly one error whose message_id is None, and no Clean, Summarize or
\* Store was invoked.
C2_FetchFailureFatal ==
    (pc = "Done" /\ FetchFailed) =>
        /\ result.total_fetched = 0
        /\ result.total_processed = 0
        /\ result.total_failed = 0
        /\ Len(result.errors) = 1
        /\ result.errors[1].message_id = NoneId
        /\ StageCalls("clean") \cup StageCalls("summarize") \cup StageCalls("store") = {}
        /\ stored = <<>>

C2_Witness == pc = "Done" /\ FetchFailed /\ Len(result.errors) = 1

\* The fetched items clean_email returns a CleanedEmail for.
Cleanable == {k \in 1..Len(raw_emails) : clean_email(raw_emails[k]).raised = ""}

\* C3: with dry_run = true neither Summarize nor Store is ever invoked, and
\* the items counted as processed are exactly those whose Clean succeeded;
\* when every item is cleanable total_processed = n and total_failed = 0.
C3_DryRunSkipsSummarizeAndStore ==
    dry_run =>
        /\ StageCalls("summarize") \cup StageCalls("store") = {}
        /\ stored = <<>>
        /\ BatchDone =>
              /\ result.total_processed = Cardinality(Cleanable)
              /\ Cardinality(Cleanable) = Len(raw_emails) =>
                    /\ result.total_processed = Len(raw_emails)
                    /\ result.total_failed = 0

C3_Witness ==
    /\ BatchDone
    /\ dry_run
    /\ Len(raw_emails) >= 2
    /\ result.total_processed = Len(raw_emails)

\* A hard parse failure of _parse_response: no JSON object found, invalid
\* JSON, or no 'summary' key.
HardParseFailure(response_text) ==
    ParseBody(response_text, op_email, RemoteModelName).raised # ""

\* The backend failures that are not parse failures.
BackendFailures == {"APIConnectionError", "AuthenticationError"}

\* C4: when the first response given to RemoteSummarizer.summarize is a hard
\* parse failure, exactly one repair call is made, it quotes the malformed
\* response, and the repaired response is parsed like the first.
C4_OneRepairCall ==
    (op = "summarize" /\ op_first.raises = "" /\ HardParseFailure(op_first.text)) =>
        /\ Len(op_out.calls) = 2
        /\ op_out.calls[2].kind = "repair"
        /\ op_out.calls[2].prompt.quoted = op_first.text
        /\ (op_second.raises = "" /\ ~HardParseFailure(op_second.text)) =>
              /\ op_out.raised = ""
              /\ op_out.value =
                    parse_response(op_second.text, op_email, RemoteModelName).value

\* C5: RemoteSummarizer.summarize never raises because of malformed model
\* output: with a backend that answers every call it returns a summary, and
\* the fallback summary when both responses are unparsable.
C5_NeverRaisesOnMalformedOutput ==
    (op = "summarize" /\ op_first.raises = "" /\ op_second.raises = "") =>
        /\ op_out.raised = ""
        /\ (HardParseFailure(op_first.text) /\ HardParseFailure(op_second.text)) =>
              op_out.value = FallbackSummary(op_email)

\* C6: a network or authentication failure of a backend call made by the
\* remote summarizer, the initial call or the repair call, is raised to the
\* caller: the call is not repeated and no summary is returned.
C6_BackendFailurePropagates ==
    /\ (op = "summarize" /\ op_first.raises \in BackendFailures) =>
          /\ op_out.raised = op_first.raises
          /\ Len(op_out.calls) = 1
    /\ (/\ op \in {"summarize", "_retry_with_json_fix"}
        /\ \E k \in 1..Len(op_out.calls) : op_out.calls[k].kind = "repair"
        /\ op_second.raises \in BackendFailures) =>
          /\ op_out.raised = op_second.raises
          /\ Cardinality({k \in 1..Len(op_out.calls) :
                             op_out.calls[k].kind = "repair"}) = 1

\* C7: every ProcessingResult returned by process_emails has counters that
\* are not negative and total_processed + total_failed <= total_fetched.
C7_CountersBounded ==
    pc = "Done" =>
        /\ result.total_fetched >= 0
        /\ result.total_processed >= 0
        /\ result.total_failed >= 0
        /\ result.total_processed + result.total_failed <= result.total_fetched

C7_Witness ==
    /\ BatchDone
    /\ result.total_failed >= 1
    /\ result.total_processed >= 1
    /\ \E i \in StageCalls("store") : history[i].raised # ""

\* The stage invocations that raised, in the order they happened.
Failures == SelectSeq(history, LAMBDA h : h.stage # "fetch" /\ h.raised # "")

\* The position of a message in the fetched list.
PositionOf(m) == CHOOSE k \in 1..Len(raw_emails) : raw_emails[k].message_id = m

\* C8: the errors of the result are the per-item errors in processing (fetch)
\* order, each with the message_id of the item that raised, and the dry_run
\* field of the result is the dry_run argument.
C8_ErrorsInProcessingOrder ==
    pc = "Done" =>
        /\ result.dry_run = dry_run
        /\ ~FetchFailed =>
              /\ Len(result.errors) = Len(Failures)
              /\ \A k \in 1..Len(result.errors) :
                    /\ result.errors[k].message_id = SomeId(Failures[k].message_id)
                    /\ result.errors[k].error_type = Failures[k].raised
              /\ \A j, k \in 1..Len(result.errors) :
                    j < k => PositionOf(result.errors[j].message_id.v)
                                 < PositionOf(result.errors[k].message_id.v)

C8_Witness == BatchDone /\ Len(result.errors) >= 2 /\ result.total_processed >= 1

\* A list of dates is in ascending order without duplicates.
StrictlyAscending(ds) == \A j, k \in 1..Len(ds) : j < k => ds[j] < ds[k]

\* C9: every EmailSummary produced, by either summarizer and on every path,
\* has its deadlines in ascending order without duplicates.
C9_DeadlinesAscending ==
    /\ pc = "Storing" => StrictlyAscending(summary.deadlines)
    /\ \A k \in 1..Len(stored) : StrictlyAscending(stored[k].deadlines)
    /\ (op # "none" /\ op_out.raised = "") => StrictlyAscending(op_out.value.deadlines)

\* C10: identity is never reassigned: clean_email keeps the RawEmail's
\* message_id, every summary returned by a summarizer has the message_id of
\* the CleanedEmail it was given, and the objects the orchestrator hands to
\* Summarize and to Store for an item carry that item's message_id.
C10_IdentityPreserved ==
    /\ \A e \in Mailbox :
          clean_email(e).raised = "" => clean_email(e).value.message_id = e.message_id
    /\ \A i \in StageCalls("summarize") \cup StageCalls("store") :
          history[i].arg = history[i].message_id
    /\ pc = "Storing" =>
          /\ summary.message_id = cleaned_email.message_id
          /\ cleaned_email.message_id = raw_emails[idx].message_id
    /\ \A k \in 1..Len(stored) :
          \E i \in StageCalls("store") : history[i].arg = stored[k].message_id
    /\ (op # "none" /\ op_out.raised = "") =>
          op_out.value.message_id = op_email.message_id

\* The fallback summary returned after a repair response that cannot be parsed.
C10_Witness ==
    /\ op = "_retry_with_json_fix"
    /\ op_second.raises = ""
    /\ HardParseFailure(op_second.text)
    /\ op_out.value = FallbackSummary(op_email)

\* The text clean_email has left after quote removal, signature removal and
\* normalization of the body it selected.
NormalizedBody(raw_email) ==
    LET body == IF Truthy(raw_email.body_html)
                THEN html_to_text(raw_email.body_html.v)
                ELSE raw_email.body_text.v
    IN  extract_main_content(remove_signature(remove_quoted_replies(body)))

\* C11: clean_email returns a CleanedEmail for every RawEmail, also when both
\* bodies are empty or absent; cleaned_body is never empty, and it is the
\* placeholder exactly when the normalized text is empty.
C11_CleanNeverFails ==
    op = "clean_email" =>
        /\ op_ret.raised = ""
        /\ op_ret.value.cleaned_body # <<>>
        /\ op_ret.value.cleaned_body = Placeholder <=> NormalizedBody(op_arg) = <<>>

\* C12: the output of quote removal holds no line that starts with ">" and
\* no line that matches a reply-header pattern.
C12_NoQuotedLineLeft ==
    op = "remove_quoted_replies" =>
        \A k \in 1..Len(Split(op_ret, NL)) :
            /\ ~StartsWith(Split(op_ret, NL)[k], <<">">>)
            /\ ~IsQuoteHeader(Split(op_ret, NL)[k])

\* A reply header followed by ">" lines: only the line before them is left.
C12_Witness ==
    /\ op = "remove_quoted_replies"
    /\ op_arg = QuoteExample
    /\ op_ret = <<"a", "a", "a", "a", "a">>

\* C13: signature removal returns the lines strictly before the earliest line
\* detected as a signature start, and the text itself when none is detected.
C13_CutBeforeEarliestSignature ==
    op = "remove_signature" =>
        LET lines == Split(op_arg, NL)
            detected(i) == SignatureAt(lines, i)
        IN  IF \A i \in 1..Len(lines) : ~detected(i)
            THEN op_ret = op_arg
            ELSE \E n \in 1..Len(lines) :
                    /\ detected(n)
                    /\ \A j \in 1..(n - 1) : ~detected(j)
                    /\ op_ret = Join(SubSeq(lines, 1, n - 1), NL)

\* "...content...\nRegards,\nJohn\n555-123-4567" is cut before "Regards,".
C13_Witness ==
    /\ op = "remove_signature"
    /\ op_arg = SignatureExample
    /\ op_ret = <<"a">>

\* The text ends with the truncation marker line.
EndsWithMarker(t) ==
    /\ Len(t) >= Len(TruncationMarker)
    /\ SubSeq(t, Len(t) - Len(TruncationMarker) + 1, Len(t)) = TruncationMarker

\* C14: a body within the budget of max_tokens * 4 characters is embedded
\* unchanged, without the marker; a longer body is embedded as at most that
\* many of its first characters followed by the marker.
C14_BoundedInput ==
    op = "_truncate_body" =>
        LET max_chars == max_tokens * 4
        IN  /\ TextLen(op_arg) <= max_chars =>
                op_ret = op_arg /\ ~EndsWithMarker(op_ret)
            /\ TextLen(op_arg) > max_chars =>
                \E n \in 0..max_chars :
                    op_ret = SubSeq(op_arg, 1, n) \o TruncationMarker
            /\ EndsWithMarker(op_ret) <=> TextLen(op_arg) > max_chars

\* A body of exactly the budget is embedded unchanged, and a longer one is
\* cut to the budget and marked.
C14_Witness ==
    /\ op = "_truncate_body"
    /\ TextLen(op_arg) = max_tokens * 4 + 1
    /\ op_ret = SubSeq(op_arg, 1, max_tokens * 4) \o TruncationMarker

\* C15: the local deadline extraction returns at most 3 dates, none before
\* the current date, strictly ascending (so without duplicates).
C15_LocalDeadlinesBounded ==
    op = "_extract_deadlines" =>
        /\ Len(op_ret) <= 3
        /\ \A k \in 1..Len(op_ret) : op_ret[k] >= Today
        /\ StrictlyAscending(op_ret)

\* A text with four different dates from today on, met out of order: the
\* three earliest are returned in ascending order.
C15_Witness ==
    /\ op = "_extract_deadlines"
    /\ op_arg = <<"2026-11-03", SP, "11/05/2026", SP, "Nov 4, 2026", SP, "2026-11-01">>
    /\ op_ret = <<1, 3, 4>>

\* The summary save_summary was last called with for a message_id.
LastSaved(message_id) ==
    LET ks == {k \in 1..Len(saved) : saved[k].message_id = message_id}
    IN  IF ks = {} THEN NoneSummary
        ELSE SomeSummary(saved[CHOOSE k \in ks : \A j \in ks : k >= j])

\* C16: after any sequence of save_summary calls the storage holds at most
\* one file and one index row per message_id, and get_summary returns the
\* summary saved last for the id.
C16_SaveIdempotent ==
    /\ \A id \in StorageIds :
            /\ Cardinality({f \in files : f.data.message_id = id}) <= 1
            /\ Cardinality({r \in index : r.message_id = id}) <= 1
    /\ op = "get_summary" => op_ret = LastSaved(op_arg)

\* The stages process_single_email invoked, by name, in order.
StagesRun == [k \in 1..Len(op_ret.stages) |-> op_ret.stages[k].stage]

\* C17: process_single_email runs Clean, Summarize and Store once each for
\* the named item on the body get_email_body returned, and returns the stored
\* summary when the backend and the storage do not fail; an exception of the
\* fetch or of a stage reaches the caller, and Store is not invoked after a
\* failed stage.
C17_SingleEmailSequence ==
    op = "process_single_email" =>
        LET fetched == op_arg.fetched
            failed == {k \in 1..Len(op_ret.stages) : op_ret.stages[k].raised # ""}
        IN  /\ fetched.raises # "" =>
                op_ret.raised = fetched.raises /\ op_ret.stages = <<>>
            /\ \A k \in failed :
                    k = Len(op_ret.stages) /\ op_ret.raised = op_ret.stages[k].raised
            /\ (fetched.raises = "" /\ fetched.text # <<>>) =>
                    \/ failed # {}
                    \/ /\ StagesRun = <<"clean", "summarize", "store">>
                       /\ op_ret.raised = ""
                       /\ op_ret.saved = <<op_ret.value>>
            /\ (/\ fetched.raises = "" /\ fetched.text # <<>>
                /\ op_arg.backend.raises = "" /\ op_arg.store = ""
                /\ engine = "remote" => op_arg.backend.text = ResponseOk)
                    => op_ret.raised = ""

\* A rating that is 1 or -1.
RatingAllowed(rating) == PyEquals(rating, 1) \/ PyEquals(rating, -1)

\* C18: Feedback.validate reports an error about the rating for every rating
\* other than 1 and -1; the feedback endpoint answers a request whose rating
\* is missing or other than 1 and -1 with an error response, without calling
\* save_feedback and without changing the stored summaries and feedback.
C18_RatingsRestricted ==
    /\ [](op = "Feedback.validate" /\ ~RatingAllowed(op_arg.rating) =>
            \E k \in 1..Len(op_ret) :
                op_ret[k] = "rating must be 1 (thumbs up) or -1 (thumbs down)")
    /\ [][(/\ response' # response
           /\ ~(/\ request'.data.json
                /\ request'.data.has_rating
                /\ RatingAllowed(request'.data.rating)))
            => /\ response'.status >= 400
               /\ response'.error # ""
               /\ UNCHANGED <<files, index, saved, file_feedback, feedback,
                              feedback_calls>>]_vars

\* C18 witness: with a summary stored, a request with rating 5 was answered
\* with the error "Rating must be 1 or -1".
C18_Witness ==
    /\ saved # <<>>
    /\ request.data = FeedbackData(TRUE, TRUE, PyInt(5))
    /\ response = Response(400, "Rating must be 1 or -1")

\* The position in the fetched batch of the item with this message_id.
Pos(message_id) ==
    CHOOSE p \in 1..Len(raw_emails) : raw_emails[p].message_id = message_id

\* The stage invocations of the batch, as indices of history.
Steps == {k \in 1..Len(history) : history[k].stage # "fetch"}

\* The stage invocation k ended its item: it raised, or it was the last stage.
EndsItem(k) ==
    \/ history[k].raised # ""
    \/ history[k].stage = "store"
    \/ dry_run /\ history[k].stage = "clean"

\* C19: in a batch the items are processed in fetch order, one at a time:
\* the first stage invoked is Clean of the first item; Summarize is invoked
\* only right after Clean returned for the same item, Store only right after
\* Summarize returned for the same item; Clean of item i+1 is invoked only
\* right after a stage of item i raised or its last stage returned; so every
\* stage runs at most once per item and none is re-attempted.
C19_SequentialStages ==
    /\ \A k \in Steps :
          LET step == history[k]
              prev == history[k - 1]
          IN  CASE step.stage = "clean" ->
                     IF Pos(step.message_id) = 1 THEN prev.stage = "fetch"
                     ELSE /\ k - 1 \in Steps
                          /\ Pos(prev.message_id) = Pos(step.message_id) - 1
                          /\ EndsItem(k - 1)
                [] step.stage = "summarize" ->
                     /\ k - 1 \in Steps
                     /\ prev.stage = "clean" /\ prev.raised = ""
                     /\ prev.message_id = step.message_id
                     /\ ~dry_run
                [] step.stage = "store" ->
                     /\ k - 1 \in Steps
                     /\ prev.stage = "summarize" /\ prev.raised = ""
                     /\ prev.message_id = step.message_id
    /\ \A j, k \in Steps :
          (j < k /\ history[j].message_id = history[k].message_id)
              => history[j].stage # history[k].stage
    /\ Cardinality({k \in 1..Len(history) : history[k].stage = "fetch"}) <= 1

\* C19 witness: a batch of three items is over; the first item was stored,
\* the second failed in Summarize, the third failed in Store.
C19_Witness ==
    /\ pc = "Done"
    /\ Len(raw_emails) = 3
    /\ [k \in 1..Len(history) |-> <<history[k].stage, history[k].raised = "">>]
         = << <<"fetch", TRUE>>,
              <<"clean", TRUE>>, <<"summarize", TRUE>>, <<"store", TRUE>>,
              <<"clean", TRUE>>, <<"summarize", FALSE>>,
              <<"clean", TRUE>>, <<"summarize", TRUE>>, <<"store", FALSE>> >>

\* C20: a call of process_emails ends, whatever the collaborators return or
\* raise, and it ends with a ProcessingResult, never with an exception; when
\* fetch_emails returned, the call gets to the aggregation after the loop.
C20_AlwaysReturnsResult ==
    /\ [][(pc \in Busy) => Proceeds]_vars
    /\ (pc = "Fetching") ~> (pc = "Done")
    /\ (pc \in {"Cleaning", "Summarizing", "Storing"}) ~> (pc = "Aggregating")
    /\ [](pc \in {"Idle", "Fetching", "Cleaning", "Summarizing", "Storing",
                  "Aggregating", "Done", "Storage", "Returned"})
    /\ [](pc = "Done" =>
            \/ result = ProcessingResult(total_fetched, processed_count,
                                         failed_count, dry_run, errors)
            \/ /\ history[Len(history)].raised # ""
               /\ result = ProcessingResult(0, 0, 0, dry_run,
                    <<ProcessingError(NoneId, history[Len(history)].raised)>>))

\* C20 witness: a call is over in which Clean raised for one item, Summarize
\* for another and Store for a third.
C20_Witness ==
    /\ pc = "Done"
    /\ \A stage \in {"clean", "summarize", "store"} :
          \E k \in 1..Len(history) :
              history[k].stage = stage /\ history[k].raised # ""
    /\ result.total_failed = 3

\* The line starts with at least n spaces.
Indented(line, n) == Len(line) >= n /\ \A j \in 1..n : line[j] = SP

\* The first visible character of the line is ">".
QuotedLine(line) == StartsWith(Strip(line), <<">">>)

RECURSIVE InQuoteAfter(_, _, _)
\* The value the claim gives in_quote once lines 1..k are scanned, when
\* "indented" means at least n leading spaces.
InQuoteAfter(lines, k, n) ==
    IF k = 0 THEN FALSE
    ELSE LET line == lines[k]
             before == InQuoteAfter(lines, k - 1, n)
         IN  IF IsQuoteHeader(line) THEN TRUE
             ELSE IF /\ before
                     /\ Strip(line) # <<>>
                     /\ ~QuotedLine(line)
                     /\ ~(TextLen(Strip(line)) < 5 \/ Indented(line, n))
                  THEN FALSE
             ELSE before

\* The lines the claim says are kept, in their original order.
KeptLines(lines, n) ==
    LET kept(k) == /\ ~IsQuoteHeader(lines[k])
                   /\ ~QuotedLine(lines[k])
                   /\ ~InQuoteAfter(lines, k, n)
        ks == SelectSeq([k \in 1..Len(lines) |-> k], kept)
    IN  [j \in 1..Len(ks) |-> lines[ks[j]]]

\* C21 as stated: inside a quote, a non-blank line whose first visible
\* character is not ">" ends the quote and is kept, unless it has fewer than
\* 5 visible characters or is indented with leading spaces (any number of
\* them): then it is dropped and the quote goes on.  Outside a quote every
\* line that is neither quoted nor a reply header is kept, in order.
C21_AnyIndentContinuesQuote ==
    op = "remove_quoted_replies" =>
        op_ret = Join(KeptLines(Split(op_arg, NL), 1), NL)

\* C21, amended: the same, where "indented" is a line that starts with at
\* least four spaces.
C21_QuoteEndsAtLongLine ==
    op = "remove_quoted_replies" =>
        op_ret = Join(KeptLines(Split(op_arg, NL), 4), NL)

\* C21 witness: after a reply header, a line indented by four spaces is
\* dropped, and the long line after it ends the quote and is kept.
C21_Witness ==
    /\ op = "remove_quoted_replies"
    /\ op_arg = <<"On Mon wrote:", NL, SP, SP, SP, SP, "a", "a", "a", "a", "a", NL,
                  "a", "a", "a", "a", "a">>
    /\ op_ret = <<"a", "a", "a", "a", "a">>

\* The deadlines list of a response, parsed entry by entry: the day of every
\* entry that is an ISO date, in the order of the list.
ParsableEntries(entries) ==
    LET days == [k \in 1..Len(entries) |-> ParseDate(entries[k])]
        ok(k) == entries[k] \in IsoDates /\ days[k].ok
        ks == SelectSeq([k \in 1..Len(entries) |-> k], ok)
    IN  [j \in 1..Len(ks) |-> days[ks[j]].day]

\* C22: _parse_response fails only when the response holds no "{" ... "}"
\* span, when the span from the first "{" to the last "}" is not valid JSON,
\* or when the object has no 'summary' key.  Every other response parses:
\* without 'actions' or 'deadlines' those lists are empty, and of a deadlines
\* value exactly the parsable entries are kept, in their original order.
C22_OnlyThreeParseFailures ==
    op = "_parse_response" =>
        LET r == op_first.text
            span == FindOpen(r) # -1 /\ RFindClose(r) # -1
            json_str == SubSeq(r, FindOpen(r) + 1, RFindClose(r) + 1)
            failure == ~span \/ ~JsonValid(json_str) \/ ~JsonHas(json_str, "summary")
        IN  /\ op_out.raised # "" <=> failure
            /\ ~failure =>
                  /\ ~JsonHas(json_str, "actions") => op_out.value.actions = <<>>
                  /\ op_out.value.deadlines =
                        IF JsonHas(json_str, "deadlines")
                        THEN ParsableEntries(JsonGet(json_str, "deadlines"))
                        ELSE <<>>

\* The offsets (counted from 0) below the budget at which the body has a
\* period and which lie at or after 80% of the budget (inclusive), or after
\* it.
PeriodsFrom80(body, max_chars, inclusive) ==
    {i \in 0..(max_chars - 1) :
        /\ i < Len(body)
        /\ body[i + 1] = "."
        /\ IF inclusive THEN 5 * i >= 4 * max_chars ELSE 5 * i > 4 * max_chars}

\* The body is cut right after the last period of ps, and at the budget when
\* ps is empty.
CutAt(body, max_chars, ps) ==
    IF ps = {} THEN SubSeq(body, 1, max_chars)
    ELSE SubSeq(body, 1, (CHOOSE i \in ps : \A j \in ps : i >= j) + 1)

\* C23 as stated: a body longer than the budget B = max_tokens * 4 is cut
\* right after the last period that lies within its first B characters at or
\* after 80% of B, a period exactly at 80% of B included, and at exactly B
\* characters when there is no such period.
C23_CutAtOrAfter80 ==
    (op = "_truncate_body" /\ TextLen(op_arg) > max_tokens * 4) =>
        op_ret = CutAt(op_arg, max_tokens * 4,
                       PeriodsFrom80(op_arg, max_tokens * 4, TRUE)) \o TruncationMarker

\* C23, amended: the same for the periods strictly after 80% of B; a period
\* exactly at 80% of B is no cut point.
C23_CutAfter80 ==
    (op = "_truncate_body" /\ TextLen(op_arg) > max_tokens * 4) =>
        op_ret = CutAt(op_arg, max_tokens * 4,
                       PeriodsFrom80(op_arg, max_tokens * 4, FALSE)) \o TruncationMarker

\* C23 witness: of two periods after 80% of the budget the later one is the
\* cut, and the characters between it and the budget are dropped.
C23_Witness ==
    /\ op = "_truncate_body"
    /\ TextLen(op_arg) > max_tokens * 4
    /\ Cardinality(PeriodsFrom80(op_arg, max_tokens * 4, FALSE)) = 2
    /\ op_arg[max_tokens * 4] = "a"
    /\ op_ret = SubSeq(op_arg, 1, max_tokens * 4 - 1) \o TruncationMarker

\* The line (counted from 1) at which remove_signature cut text to get out:
\* the line after the last one of out.  An empty out is what is left of a
\* cut at line 1, and of a cut at line 2 below an empty first line; no cut
\* is made at a first line that is empty.
CutLine(text, out) ==
    IF out = <<>> /\ Split(text, NL)[1] # <<>> THEN 1 ELSE Len(Split(out, NL)) + 1

\* C24: the phone-number heuristic makes line i the signature start only when
\* no delimiter pattern matched at or before line i, line i lies within the
\* last 40% of the lines, line i matches the phone-number pattern, and at
\* least two of the three lines that follow line i hold a contact indicator.
C24_PhoneHeuristicLooksAhead ==
    (op = "remove_signature" /\ op_ret # op_arg) =>
        LET lines == Split(op_arg, NL)
            i == CutLine(op_arg, op_ret)
            following == {k \in (i + 1)..(i + 3) : k <= Len(lines)}
        IN  /\ op_ret = Join(SubSeq(lines, 1, i - 1), NL)
            /\ ~IsSignatureLine(lines[i]) =>
                  /\ \A j \in 1..i : ~IsSignatureLine(lines[j])
                  /\ 5 * i > 3 * Len(lines)
                  /\ HasPhone(lines[i])
                  /\ Cardinality({k \in following : HasContactIndicator(lines[k])}) >= 2

\* C25: the signature scan of clean_email sees only the lines that survived
\* quote removal.  When none of the surviving lines starts a signature, all
\* of them are in the cleaned body, whatever signature delimiters were
\* dropped with the quoted block before them.
C25_QuotedDelimiterCutsNothing ==
    (op = "clean_email" /\ ~Truthy(op_arg.body_html) /\ op_arg.body_text.some) =>
        LET kept == KeptLines(Split(op_arg.body_text.v, NL), 4)
            body == extract_main_content(Join(kept, NL))
        IN  (\A k \in 1..Len(kept) : ~SignatureAt(kept, k)) =>
                /\ op_ret.raised = ""
                /\ op_ret.value.cleaned_body = IF body = <<>> THEN Placeholder ELSE body

\* C25 witness: the quoted block holds "> --" and a bare "--"; the line before
\* the quote and the line after it are both in the cleaned body.
C25_Witness ==
    /\ op = "clean_email"
    /\ op_arg.body_text = Some(QuotedSignatureExample)
    /\ ~Truthy(op_arg.body_html)
    /\ op_ret.value.cleaned_body =
          <<"a", "a", "a", "a", "a", NL, "a", "a", "a", "a", "a", "a">>

RECURSIVE CollapseBlankRuns(_, _)
\* The lines, with every run of at least n empty lines replaced by one empty
\* line and every shorter run left as it is.
CollapseBlankRuns(lines, n) ==
    IF lines = <<>> THEN <<>>
    ELSE IF Head(lines) # <<>>
    THEN <<Head(lines)>> \o CollapseBlankRuns(Tail(lines), n)
    ELSE LET rest == DropLeadingEmpty(lines)
             run == Len(lines) - Len(rest)
         IN  (IF run >= n THEN << <<>> >> ELSE SubSeq(lines, 1, run))
                 \o CollapseBlankRuns(rest, n)

\* The text with each line trimmed, the blank lines at both ends removed and
\* the runs of at least n blank lines collapsed to one.
Normalized(text, n) ==
    LET lines == Split(text, NL)
        trimmed == [k \in 1..Len(lines) |-> Strip(lines[k])]
    IN  Join(CollapseBlankRuns(DropTrailingEmpty(DropLeadingEmpty(trimmed)), n), NL)

\* C26 as stated: normalization collapses every run of 3 or more blank lines
\* to one blank line, trims each line and removes the blank lines at both
\* ends; runs of fewer than 3 blank lines between content lines are kept as
\* they are, and normalizing the output again changes nothing.
C26_CollapsesRunsOfThree ==
    op = "extract_main_content" =>
        /\ op_ret = Normalized(op_arg, 3)
        /\ extract_main_content(op_ret) = op_ret

\* C26, amended: the same for the runs of 2 or more blank lines (3 or more
\* line breaks in a row); only a single blank line between content lines is
\* kept as it is.
C26_CollapsesRunsOfTwo ==
    op = "extract_main_content" =>
        /\ op_ret = Normalized(op_arg, 2)
        /\ extract_main_content(op_ret) = op_ret

\* C26 witness: three blank lines between two content lines become one, the
\* content lines are trimmed and the blank line at the end is removed.
C26_Witness ==
    /\ op = "extract_main_content"
    /\ op_arg = <<SP, "a", "a", SP, NL, NL, SP, NL, NL, SP, "a", "a", SP, NL>>
    /\ op_ret = <<"a", "a", NL, NL, "a", "a">>

\* The fetched items for which a stage raised.
FailedItems == {k \in 1..Len(raw_emails) : RaisedFor(raw_emails[k].message_id) # {}}

\* C27: when fetch succeeded, every fetched item is counted exactly once, as
\* failed when one of its stages raised (Store after a successful Summarize
\* included) and as processed otherwise: total_processed + total_failed =
\* total_fetched, and the errors list is as long as total_failed.
C27_EachItemCountedOnce ==
    BatchDone =>
        /\ result.total_fetched = Len(raw_emails)
        /\ result.total_failed = Cardinality(FailedItems)
        /\ result.total_processed = Len(raw_emails) - Cardinality(FailedItems)
        /\ result.total_processed + result.total_failed = result.total_fetched
        /\ Len(result.errors) = result.total_failed

\* C27 witness: of three items one is stored, one fails in Store after its
\* Summarize returned, and one fails before Store.
C27_Witness ==
    /\ BatchDone
    /\ result.total_fetched = 3
    /\ result.total_processed = 1
    /\ result.total_failed = 2
    /\ \E i \in StageCalls("store") :
          /\ history[i].raised # ""
          /\ \E j \in StageCalls("summarize") :
                /\ history[j].message_id = history[i].message_id
                /\ history[j].raised = ""
    /\ \E i \in StageCalls("clean") \cup StageCalls("summarize") : history[i].raised # ""

\* The saves of message_id, by position in saved.
SavesOf(message_id) == {k \in 1..Len(saved) : saved[k].message_id = message_id}

\* The files the saves made so far have left for message_id: one for each
\* file name, holding what the last save under that name wrote.
FilesSavedFor(message_id) ==
    {[name |-> FileName(saved[k]), data |-> summary_to_dict(saved[k])] :
        k \in {i \in SavesOf(message_id) :
                  \A j \in (i + 1)..Len(saved) : FileName(saved[j]) # FileName(saved[i])}}

\* The index rows the saves made so far have left for message_id: the row of
\* its last save.
RowsSavedFor(message_id) ==
    IF use_sqlite_index /\ SavesOf(message_id) # {}
    THEN LET last == CHOOSE k \in SavesOf(message_id) :
                        \A j \in SavesOf(message_id) : j <= k
         IN  {[message_id |-> message_id, file_path |-> FileName(saved[last])]}
    ELSE {}

\* C28: after any saves, delete_summary(id) removes only what is stored under
\* id: the files and the index row of every other message_id are as the saves
\* left them, get_summary still finds a summary for every other saved
\* message_id, also for one of which id is a substring, and get_summary(id)
\* returns nothing.
C28_DeleteRemovesOnlyThatId ==
    op = "delete_summary" =>
        /\ \A other \in StorageIds \ {op_arg} :
              /\ {f \in files : f.name[2] = other} = FilesSavedFor(other)
              /\ {r \in index : r.message_id = other} = RowsSavedFor(other)
              /\ SavesOf(other) # {} => NoneSummary \notin get_summary(other)
        /\ get_summary(op_arg) = {NoneSummary}

\* ---- C29 ----

\* The calls and the sleeps of a wrapper's log, in order.
CallsOf(log) == SelectSeq(log, LAMBDA e : e.ev = "call")
SleepsOf(log) == SelectSeq(log, LAMBDA e : e.ev = "sleep")

\* The call that decides a wrapped run of n attempts: the first one that
\* succeeds or raises an exception outside the handled ones, the n-th if
\* there is none.
Deciding(outcomes, handled, n) ==
    LET ends == {k \in 1..n : outcomes[k].raises \notin handled}
    IN  IF ends = {} THEN n ELSE CHOOSE k \in ends : \A j \in ends : k <= j

\* The exceptions of FuncOutcomes that the tuple exceptions covers.
Handled(exceptions) ==
    IF "Exception" \in exceptions THEN {"ConnectionError", "ValueError"}
    ELSE exceptions

\* The log is call 0, sleep, call 1, sleep, ..., call k - 1: a sleep only
\* between two calls, none after the last one.
Alternates(log, k) ==
    /\ Len(log) = 2 * k - 1
    /\ \A i \in 1..Len(log) :
          IF i % 2 = 1
          THEN log[i].ev = "call" /\ log[i].attempt = (i - 1) \div 2
          ELSE log[i].ev = "sleep" /\ log[i].attempt = (i - 2) \div 2

\* C29: a function wrapped by retry_with_backoff with max_attempts = n >= 1
\* is called at most n times; the wrapper returns the result of the first
\* call that succeeds and calls no more, sleeps get_delay(attempt) only
\* between attempts (never after the last failure, never more than
\* max_delay), re-raises the last exception after n failures, and lets an
\* exception outside the configured tuple propagate after that single call.
C29_RetryWithBackoff ==
    (op = "retry_with_backoff" /\ op_arg.config.max_attempts >= 1) =>
        LET config == op_arg.config
            n == config.max_attempts
            outcomes == op_arg.outcomes
            k == Deciding(outcomes, Handled(op_arg.exceptions), n)
            log == op_ret.log
        IN  /\ Len(CallsOf(log)) <= n
            /\ Len(CallsOf(log)) = k
            /\ Alternates(log, k)
            /\ \A i \in 1..Len(log) :
                  log[i].ev = "sleep" =>
                      /\ log[i].delay = get_delay(config, log[i].attempt)
                      /\ log[i].delay <= config.max_delay
                      /\ log[i].attempt < n - 1
            /\ op_ret.raises = outcomes[k].raises
            /\ op_ret.text = outcomes[k].text

\* All three attempts fail with handled exceptions, the last one differing
\* from the first, and the second delay is capped by max_delay.
C29_Witness ==
    /\ op = "retry_with_backoff"
    /\ op_arg.config.max_attempts = 3
    /\ Len(CallsOf(op_ret.log)) = 3
    /\ op_arg.outcomes[1].raises = "ConnectionError"
    /\ op_ret.raises = "ValueError"
    /\ [i \in 1..2 |-> SleepsOf(op_ret.log)[i].delay] = <<1, 1>>
    /\ op_arg.config.initial_delay * Power(op_arg.config.exponential_base, 1)
           > op_arg.config.max_delay

\* ---- C30 ----

\* C30: a function wrapped by handle_rate_limit is retried only on
\* RateLimitError and is called at most 5 times in total: any other
\* exception propagates right after the call that raised it, a success
\* returns at once, and after the fifth consecutive RateLimitError a
\* RateLimitError propagates to the caller.
C30_RetriedOnlyOnRateLimit ==
    op = "handle_rate_limit" =>
        LET outcomes == op_arg.outcomes
            calls == Len(CallsOf(op_ret.log))
        IN  /\ calls \in 1..5
            /\ \A j \in 1..(calls - 1) : outcomes[j].raises = "RateLimitError"
            /\ outcomes[calls].raises # "RateLimitError" =>
                  /\ op_ret.raises = outcomes[calls].raises
                  /\ op_ret.text = outcomes[calls].text
            /\ outcomes[calls].raises = "RateLimitError" =>
                  /\ calls = 5
                  /\ op_ret.raises = "RateLimitError"

\* Five calls, each raising RateLimitError, with the four sleeps between
\* them, and the error reaches the caller.
C30_Witness ==
    /\ op = "handle_rate_limit"
    /\ \A j \in 1..5 : op_arg.outcomes[j].raises = "RateLimitError"
    /\ Len(CallsOf(op_ret.log)) = 5
    /\ Len(SleepsOf(op_ret.log)) = 4
    /\ op_ret.raises = "RateLimitError"

====
